---- MODULE Spec2Model ----
(***************************************************************************)
(* Model of the mirroring registry proxy of src/docker/sum/main.go:        *)
(*   - URLManager, the adaptive upstream selector (Get / Done / MarkDead / *)
(*     resume) at the level of whole calls (Spec, LiveSpec) and at the     *)
(*     level of single lock operations (ConcSpec);                         *)
(*   - proxyRequest with serveFromCache and the cache files (ProxySpec).   *)
(*                                                                         *)
(* Strings are sequences of tokens: a mirror URL is <<"m1">>, a request    *)
(* path is <<"/", "v2", "/", "x", "/", "blobs", "/", "sha256:", "K">>.     *)
(* Weights are float64 in the source; here they are exact fixed-point      *)
(* numbers [int, frac] of value int + frac/WeightScale, which represent    *)
(* every weight the chosen Done inputs produce without rounding.           *)
(***************************************************************************)
EXTENDS Integers, Sequences, FiniteSets, TLC

VARIABLES
    urls,      \* um.urls: sequence of URLInfo records
    getting,   \* sequential caller: "idle", or where its Get call stands
    passes,    \* resurrection passes made by the Get call in progress
    last,      \* the last completed step of the sequential caller
    mu,        \* URLInfo.mu of each mirror: the task holding it, or "none"
    umMu,      \* um.mu, the RWMutex of the mirror list
    task,      \* concurrent callers: position and locals of each task
    clast,     \* the last write to a mirror made by a concurrent caller
    fs,        \* the files under cache/: path |-> content
    req,       \* the inbound requests: position and locals of proxyRequest
    attemptCap, \* the number of upstream attempts the model follows per request
    s3,        \* S3Client: the local files, the bucket and the call in progress
    fork,      \* docker/fork: the image files, the lock, handler and background task
    limiter    \* the rate-limiting proxy: clock, counters, blacklist, requests

selVars == <<urls, getting, passes, last>>
concVars == <<mu, umMu, task, clast>>
proxyVars == <<fs, req, attemptCap>>
s3Vars == <<s3>>
srvVars == <<fork, limiter>>

(***************************************************************************)
(* Bounds of the model.                                                    *)
(***************************************************************************)
MaxMirrors == 2     \* number of AddURL calls at startup
MaxLoad == 2        \* Get is not called once a mirror carries this load
MaxPasses == 3      \* the pass counter saturates here

WeightScale == 10000000   \* resolution of a weight: 1e-7

\* The mirrors main registers, in order.
URLPool == <<  <<"m1">>, <<"m2">>, <<"m3">>, <<"m4">>  >>

\* A URL that is the prefix of no registered mirror plus a path: what
\* proxyURL.String() yields for a non-empty request path.
ForeignURL == <<"m1", "/", "v2">>

Min(a, b) == IF a < b THEN a ELSE b

(***************************************************************************)
(* float64 values of weights: int + frac/WeightScale, 0 <= frac < scale    *)
(***************************************************************************)
Fixed(int, frac) ==
    [int |-> int + (frac \div WeightScale), frac |-> frac % WeightScale]

\* n/10 for an integer n.
Tenths(n) == Fixed(n \div 10, (n % 10) * (WeightScale \div 10))

FixedAdd(a, b) == Fixed(a.int + b.int, a.frac + b.frac)

\* a * n for a small natural number n.
FixedMul(a, n) == Fixed(a.int * n, a.frac * n)

FixedLess(a, b) == a.int < b.int \/ (a.int = b.int /\ a.frac < b.frac)

FixedZero == Fixed(0, 0)

(***************************************************************************)
(* URLManager: data                                                        *)
(***************************************************************************)
\* &URLInfo{URL: url, Weight: 1}: Dead false, Load 0.
URLInfo(url) == [URL |-> url, Dead |-> FALSE, Load |-> 0, Weight |-> Fixed(1, 0)]

\* NewURLManager: no mirror registered.
NewURLManager == << >>

\* The index of the first mirror whose URL url starts with, 0 if there is none.
FindURLPrefix(us, url) ==
    LET starts(i) == /\ Len(us[i].URL) <= Len(url)
                     /\ SubSeq(url, 1, Len(us[i].URL)) = us[i].URL
    IN  IF \E i \in 1..Len(us) : starts(i)
        THEN CHOOSE i \in 1..Len(us) : starts(i) /\ \A j \in 1..(i - 1) : ~starts(j)
        ELSE 0

\* Index of the first mirror whose URL equals url, 0 when there is none
\* (the range loops of Done and MarkDead break at the first match).
FindURL(us, url) ==
    IF \E i \in 1..Len(us) : us[i].URL = url
    THEN CHOOSE i \in 1..Len(us) :
            /\ us[i].URL = url
            /\ \A j \in 1..(i - 1) : us[j].URL # url
    ELSE 0

(***************************************************************************)
(* float64 comparison of load ratios                                       *)
(***************************************************************************)
\* math.MaxFloat64, the initial minLoadRatio.
MaxFloat64 == [kind |-> "max", num |-> 0, den |-> Fixed(1, 0)]

\* float64(urlInfo.Load) / urlInfo.Weight. Division by a zero weight gives
\* NaN for load 0 and +Inf for a positive load.
LoadRatio(load, weight) ==
    IF weight = FixedZero
    THEN IF load = 0 THEN [kind |-> "nan", num |-> 0, den |-> Fixed(1, 0)]
                     ELSE [kind |-> "inf", num |-> 0, den |-> Fixed(1, 0)]
    ELSE [kind |-> "fin", num |-> load, den |-> weight]

\* a < b on float64: false when either side is NaN; every finite ratio of the
\* model is below MaxFloat64, which is below +Inf.
RatioLess(a, b) ==
    CASE a.kind = "nan" \/ b.kind = "nan" -> FALSE
      [] a.kind = "inf" -> FALSE
      [] a.kind = "max" -> b.kind = "inf"
      [] b.kind \in {"inf", "max"} -> TRUE
      [] OTHER -> IF FixedLess(FixedZero, a.den) = FixedLess(FixedZero, b.den)
                  THEN FixedLess(FixedMul(b.den, a.num), FixedMul(a.den, b.num))
                  ELSE FixedLess(FixedMul(a.den, b.num), FixedMul(b.den, a.num))

(***************************************************************************)
(* URLManager.Get: one iteration of the outer for loop                     *)
(***************************************************************************)
\* The scan loop, lines 65-82: i counts the mirrors examined so far, sel is
\* the index of selectedURL (0 for nil), min is minLoadRatio.
RECURSIVE ScanFrom(_, _, _, _, _)
ScanFrom(us, startIndex, i, sel, min) ==
    IF i >= Len(us) THEN sel
    ELSE LET idx == ((startIndex + i) % Len(us)) + 1
             loadRatio == LoadRatio(us[idx].Load, us[idx].Weight)
         IN  IF ~us[idx].Dead /\ RatioLess(loadRatio, min)
             THEN ScanFrom(us, startIndex, i + 1, idx, loadRatio)
             ELSE ScanFrom(us, startIndex, i + 1, sel, min)

Scan(us, startIndex) == ScanFrom(us, startIndex, 0, 0, MaxFloat64)

\* Every mirror as it was when it was registered.
resumeFresh(us) == [i \in 1..Len(us) |-> URLInfo(us[i].URL)]

\* urlInfo.Dead = false for every mirror.
resume(us) == [i \in 1..Len(us) |-> [us[i] EXCEPT !.Dead = FALSE]]

\* The load incremented and the weight set back to its initial value.
SelectedReset(us, sel) == [us EXCEPT ![sel].Load = @ + 1, ![sel].Weight = Fixed(1, 0)]

\* selectedURL.Load++
Selected(us, sel) == [us EXCEPT ![sel].Load = @ + 1]

(***************************************************************************)
(* URLManager.Done, URLManager.MarkDead                                    *)
(***************************************************************************)
\* One k for every ratio.
ScaleKFlat(responseTime, contentLength) == 1000000

\* k, chosen from ratio = contentLength / responseTime.
ScaleK(responseTime, contentLength) ==
    IF contentLength > 1000000000 * responseTime THEN 1000
    ELSE IF contentLength > 1000000 * responseTime THEN 100000
    ELSE 1000000

\* (1-beta)*(contentLength/responseTime/k) with beta = 0.7: the quotient of
\* contentLength by responseTime*k is split into its whole part and the rest.
RateTerm(responseTime, contentLength, k) ==
    LET whole == contentLength \div (responseTime * k)
        rest == contentLength % (responseTime * k)
    IN  FixedAdd(Tenths(3 * whole),
                 Fixed(0, ((((3 * WeightScale) \div 10) \div k) * rest) \div responseTime))

\* beta*Load + (1-beta)*(contentLength/responseTime/k)
DoneWeight(load, responseTime, contentLength) ==
    FixedAdd(Tenths(7 * load),
             RateTerm(responseTime, contentLength, ScaleK(responseTime, contentLength)))

DoneLoadNoFloor(load) == load - 1

\* The load left as it is.
DoneLoadKept(load) == load

\* if urlInfo.Load > 0 { urlInfo.Load-- }
DoneLoad(load) == IF load > 0 THEN load - 1 ELSE load

DoneURLs(us, url, responseTime, contentLength) ==
    LET i == FindURL(us, url)
    IN  IF i = 0 THEN us
        ELSE [us EXCEPT ![i] = [@ EXCEPT
                 !.Load = DoneLoad(us[i].Load),
                 !.Weight = DoneWeight(DoneLoad(us[i].Load), responseTime, contentLength)]]

\* The mirror marked dead with its load kept.
MarkDeadKeepLoad(us, url) ==
    LET i == FindURL(us, url)
    IN  IF i = 0 THEN us
        ELSE [us EXCEPT ![i] = [@ EXCEPT !.Dead = TRUE]]

\* MarkDead: urlInfo.Dead = true, urlInfo.Load = 0 on the first mirror whose
\* URL equals url.
MarkDeadURLs(us, url) ==
    LET i == FindURL(us, url)
    IN  IF i = 0 THEN us
        ELSE [us EXCEPT ![i] = [@ EXCEPT !.Dead = TRUE, !.Load = 0]]

(***************************************************************************)
(* Spec: one caller drives the URLManager through whole calls.             *)
(***************************************************************************)
\* <<responseTime, contentLength>> pairs passed to Done: an unknown length
\* (-1), an empty body, and a body of 2e6 bytes, each taking one second.
DoneInputs == { <<1, -1>>, <<1, 0>>, <<1, 2000000>> }

\* URLs passed to Done and MarkDead.
ArgURLs == {URLPool[i] : i \in 1..MaxMirrors} \cup {ForeignURL}

SomeAlive(us) == \E i \in 1..Len(us) : ~us[i].Dead

\* last: the call, its URL (the argument, or the mirror Get returned), the
\* start index of the scan, whether the iteration of Get ended in resume,
\* whether some mirror was alive when the iteration began, and the
\* responseTime and contentLength passed to Done.
NoCall == [op |-> "none", url |-> << >>, start |-> 0, resumed |-> FALSE, alive |-> FALSE,
           responseTime |-> 0, contentLength |-> 0]

\* clast: the call that wrote, the index of the mirror, and whether the
\* mirror's load was 0 before the write.
NoWrite == [op |-> "none", idx |-> 0, zero |-> FALSE]

\* The variables of ProxySpec while Spec or ConcSpec runs.
ProxyIdle ==
    /\ fs = << >>
    /\ req = << >>
    /\ attemptCap = 0

\* s3 while no S3Client call is made.
NoTransfer == [pc |-> "idle"]

S3Idle == s3 = NoTransfer

\* The image cache server and the rate-limiting proxy are not running.
NoServer == [pc |-> "off"]
ServersIdle == fork = NoServer /\ limiter = NoServer

\* The variables of ConcSpec while Spec runs.
ConcIdle ==
    /\ mu = << >>
    /\ umMu = [readers |-> {}, writer |-> "none", waiting |-> {}]
    /\ task = << >>
    /\ clast = NoWrite

Init ==
    /\ urls = NewURLManager
    /\ getting = "idle"
    /\ passes = 0
    /\ last = NoCall
    /\ ConcIdle
    /\ ProxyIdle
    /\ S3Idle
    /\ ServersIdle

\* AddURL, called by main before the server starts.
AddURL ==
    /\ getting = "idle"
    /\ last.op \in {"none", "AddURL"}
    /\ Len(urls) < MaxMirrors
    /\ urls' = Append(urls, URLInfo(URLPool[Len(urls) + 1]))
    /\ last' = [NoCall EXCEPT !.op = "AddURL", !.url = URLPool[Len(urls) + 1]]
    /\ UNCHANGED <<getting, passes>>
    /\ UNCHANGED <<concVars, proxyVars, s3Vars, srvVars>>

\* Get, lines 53-92, one iteration of the for loop up to the call of resume:
\* return "" when no mirror is registered; scan from a random start index;
\* return the selected mirror with its load incremented, or go on to resume.
GetPass ==
    /\ \/ getting = "loop"
       \/ getting = "idle" /\ \A i \in 1..Len(urls) : urls[i].Load < MaxLoad
    /\ IF Len(urls) = 0
       THEN /\ last' = [NoCall EXCEPT !.op = "Get"]
            /\ getting' = "idle"
            /\ passes' = 0
            /\ UNCHANGED urls
       ELSE \E startIndex \in 0..(Len(urls) - 1) :
              LET sel == Scan(urls, startIndex)
              IN  IF sel # 0
                  THEN /\ urls' = Selected(urls, sel)
                       /\ last' = [NoCall EXCEPT !.op = "Get", !.url = urls[sel].URL,
                                   !.start = startIndex, !.alive = SomeAlive(urls)]
                       /\ getting' = "idle"
                       /\ passes' = 0
                  ELSE /\ last' = [NoCall EXCEPT !.op = "Get", !.start = startIndex,
                                   !.resumed = TRUE, !.alive = SomeAlive(urls)]
                       /\ getting' = "resume"
                       /\ UNCHANGED <<urls, passes>>
    /\ UNCHANGED <<concVars, proxyVars, s3Vars, srvVars>>

\* Get, line 93: the resurrection pass, after which the for loop starts over.
GetResume ==
    /\ getting = "resume"
    /\ urls' = resume(urls)
    /\ getting' = "loop"
    /\ passes' = Min(passes + 1, MaxPasses)
    /\ UNCHANGED last
    /\ UNCHANGED <<concVars, proxyVars, s3Vars, srvVars>>

Done ==
    /\ getting = "idle"
    /\ \E url \in ArgURLs, in \in DoneInputs :
         /\ urls' = DoneURLs(urls, url, in[1], in[2])
         /\ last' = [NoCall EXCEPT !.op = "Done", !.url = url,
                                   !.responseTime = in[1], !.contentLength = in[2]]
    /\ UNCHANGED <<getting, passes>>
    /\ UNCHANGED <<concVars, proxyVars, s3Vars, srvVars>>

MarkDead ==
    /\ getting = "idle"
    /\ \E url \in ArgURLs :
         /\ urls' = MarkDeadURLs(urls, url)
         /\ last' = [NoCall EXCEPT !.op = "MarkDead", !.url = url]
    /\ UNCHANGED <<getting, passes>>
    /\ UNCHANGED <<concVars, proxyVars, s3Vars, srvVars>>

Next == AddURL \/ GetPass \/ GetResume \/ Done \/ MarkDead

vars == <<selVars, concVars, proxyVars, s3Vars, srvVars>>

Spec == Init /\ [][Next]_vars

\* The caller of Get is a running goroutine: a Get inside its loop takes its
\* next iteration.
LiveSpec == Spec /\ WF_vars(GetPass) /\ WF_vars(GetResume)

(***************************************************************************)
(* DoneSpec: Get and Done on one mirror, Done over the three ranges of     *)
(* contentLength/responseTime and their boundaries.                        *)
(***************************************************************************)
\* <<responseTime, contentLength>>: throughput up to 1e6, above 1e6, above
\* 1e9, exactly 1e6 and 1e9, with a responseTime of one and of two seconds.
DoneArgs ==
    DoneInputs \cup
    { <<1, 1000000>>, <<1, 1000001>>, <<1, 1000000000>>, <<1, 1000000001>>,
      <<1, 2000000000>>,
      <<2, 0>>, <<2, 2000000>>, <<2, 2000002>>, <<2, 2000000000>> }

DoneInit ==
    /\ urls = << URLInfo(URLPool[1]) >>
    /\ getting = "idle"
    /\ passes = 0
    /\ last = NoCall
    /\ ConcIdle
    /\ ProxyIdle
    /\ S3Idle
    /\ ServersIdle

DoneAny ==
    /\ getting = "idle"
    /\ \E url \in {URLPool[1], ForeignURL}, in \in DoneArgs :
         /\ urls' = DoneURLs(urls, url, in[1], in[2])
         /\ last' = [NoCall EXCEPT !.op = "Done", !.url = url,
                                   !.responseTime = in[1], !.contentLength = in[2]]
    /\ UNCHANGED <<getting, passes>>
    /\ UNCHANGED <<concVars, proxyVars, s3Vars, srvVars>>

DoneNext == GetPass \/ GetResume \/ DoneAny

DoneSpec == DoneInit /\ [][DoneNext]_vars

(***************************************************************************)
(* ConcSpec: tasks call Get, Done and MarkDead concurrently; one action    *)
(* per lock operation. A mirror's fields are read and written only under   *)
(* its mutex, so the statements between Lock and Unlock are one step.      *)
(***************************************************************************)
Tasks == {"t1", "t2"}

IdleTask == [pc |-> "idle", url |-> << >>, startIndex |-> 0, i |-> 0,
             selectedURL |-> 0, minLoadRatio |-> MaxFloat64]

\* Two mirrors registered by main, before the server starts.
Registered == << URLInfo(URLPool[1]), URLInfo(URLPool[2]) >>

ConcArgURLs == {Registered[i].URL : i \in 1..Len(Registered)} \cup {ForeignURL}

ConcInit ==
    /\ urls = Registered
    /\ mu = [i \in 1..Len(Registered) |-> "none"]
    /\ umMu = [readers |-> {}, writer |-> "none", waiting |-> {}]
    /\ task = [t \in Tasks |-> IdleTask]
    /\ clast = NoWrite
    /\ getting = "idle"
    /\ passes = 0
    /\ last = NoCall
    /\ ProxyIdle
    /\ S3Idle
    /\ ServersIdle

SeqIdle == UNCHANGED <<getting, passes, last, proxyVars, s3Vars, srvVars>>

\* sync.RWMutex: RLock waits while a writer holds the lock or waits for it.
CanRLock == umMu.writer = "none" /\ umMu.waiting = {}
RLock(t) == [umMu EXCEPT !.readers = @ \cup {t}]
\* The read lock kept.
RUnlockKept(t) == umMu
RUnlock(t) == [umMu EXCEPT !.readers = @ \ {t}]

\* Lines 54-63: RLock, n := len(um.urls), the random start index.
GetRLock(t) ==
    /\ \/ task[t].pc = "Get_RLock"
       \/ task[t].pc = "idle" /\ \A i \in 1..Len(urls) : urls[i].Load < MaxLoad
    /\ CanRLock
    /\ IF Len(urls) = 0
       THEN /\ task' = [task EXCEPT ![t] = IdleTask]
            /\ UNCHANGED umMu
       ELSE /\ umMu' = RLock(t)
            /\ \E startIndex \in 0..(Len(urls) - 1) :
                 task' = [task EXCEPT ![t] = [@ EXCEPT
                            !.pc = "Get_scan", !.startIndex = startIndex, !.i = 0,
                            !.selectedURL = 0, !.minLoadRatio = MaxFloat64]]
    /\ UNCHANGED <<urls, mu, clast>>
    /\ SeqIdle

\* The mirror the scan of task t examines next.
ScanIndex(t) == ((task[t].startIndex + task[t].i) % Len(urls)) + 1

\* Lines 66-81, one iteration of the scan: lock the mirror; if it is alive and
\* its ratio is below minLoadRatio, unlock the previous candidate and keep this
\* mirror locked; otherwise unlock it.
GetExamine(t) ==
    /\ task[t].pc = "Get_scan"
    /\ LET idx == ScanIndex(t)
           loadRatio == LoadRatio(urls[idx].Load, urls[idx].Weight)
           better == ~urls[idx].Dead /\ RatioLess(loadRatio, task[t].minLoadRatio)
           sel == task[t].selectedURL
           pcNext == IF task[t].i + 1 >= Len(urls) THEN "Get_end" ELSE "Get_scan"
       IN  /\ mu[idx] = "none"
           /\ IF better
              THEN /\ mu' = [j \in 1..Len(mu) |->
                               IF j = idx THEN t
                               ELSE IF j = sel THEN "none" ELSE mu[j]]
                   /\ task' = [task EXCEPT ![t] = [@ EXCEPT
                                 !.selectedURL = idx, !.minLoadRatio = loadRatio,
                                 !.i = @ + 1, !.pc = pcNext]]
              ELSE /\ mu' = mu
                   /\ task' = [task EXCEPT ![t] = [@ EXCEPT !.i = @ + 1, !.pc = pcNext]]
    /\ UNCHANGED <<urls, umMu, clast>>
    /\ SeqIdle

\* Lines 84-89: selectedURL.Load++, unlock it, RUnlock, return its URL.
GetReturn(t) ==
    /\ task[t].pc = "Get_end"
    /\ task[t].selectedURL # 0
    /\ LET sel == task[t].selectedURL
       IN  /\ urls' = Selected(urls, sel)
           /\ mu' = [mu EXCEPT ![sel] = "none"]
           /\ clast' = [op |-> "Get", idx |-> sel, zero |-> urls[sel].Load = 0]
    /\ umMu' = RUnlock(t)
    /\ task' = [task EXCEPT ![t] = IdleTask]
    /\ SeqIdle

\* Lines 92-93: nothing selected: RUnlock, then resume.
GetNone(t) ==
    /\ task[t].pc = "Get_end"
    /\ task[t].selectedURL = 0
    /\ umMu' = RUnlock(t)
    /\ task' = [task EXCEPT ![t] = [@ EXCEPT !.pc = "resume_Lock"]]
    /\ UNCHANGED <<urls, mu, clast>>
    /\ SeqIdle

\* resume, line 143: um.mu.Lock() announces the writer, which holds back new
\* readers, ...
ResumeLock(t) ==
    /\ task[t].pc = "resume_Lock"
    /\ umMu' = [umMu EXCEPT !.waiting = @ \cup {t}]
    /\ task' = [task EXCEPT ![t] = [@ EXCEPT !.pc = "resume_wait"]]
    /\ UNCHANGED <<urls, mu, clast>>
    /\ SeqIdle

\* ... and returns once no reader and no writer holds the lock.
ResumeAcquire(t) ==
    /\ task[t].pc = "resume_wait"
    /\ umMu.readers = {}
    /\ umMu.writer = "none"
    /\ umMu' = [umMu EXCEPT !.writer = t, !.waiting = @ \ {t}]
    /\ task' = [task EXCEPT ![t] = [@ EXCEPT !.pc = "resume_loop", !.i = 0]]
    /\ UNCHANGED <<urls, mu, clast>>
    /\ SeqIdle

\* Lines 145-149, one iteration: lock the mirror, Dead = false, unlock; after
\* the last mirror the deferred Unlock runs and Get loops.
ResumeMirror(t) ==
    /\ task[t].pc = "resume_loop"
    /\ LET j == task[t].i + 1
           last_ == j >= Len(urls)
       IN  /\ mu[j] = "none"
           /\ urls' = [urls EXCEPT ![j].Dead = FALSE]
           /\ clast' = [op |-> "resume", idx |-> j, zero |-> urls[j].Load = 0]
           /\ umMu' = IF last_ THEN [umMu EXCEPT !.writer = "none"] ELSE umMu
           /\ task' = [task EXCEPT ![t] = [@ EXCEPT
                         !.i = j,
                         !.pc = IF last_ THEN "Get_RLock" ELSE "resume_loop"]]
    /\ UNCHANGED mu
    /\ SeqIdle

\* Done and MarkDead, lines 99-103 and 127-131: RLock and the search for the
\* URL; without a match the deferred RUnlock runs and the call returns.
DoneRLock(t) ==
    /\ task[t].pc = "idle"
    /\ CanRLock
    /\ \E url \in ConcArgURLs :
         IF FindURL(urls, url) = 0
         THEN UNCHANGED <<task, umMu>>
         ELSE /\ umMu' = RLock(t)
              /\ task' = [task EXCEPT ![t] = [@ EXCEPT !.pc = "Done_Lock", !.url = url]]
    /\ UNCHANGED <<urls, mu, clast>>
    /\ SeqIdle

MarkDeadRLock(t) ==
    /\ task[t].pc = "idle"
    /\ CanRLock
    /\ \E url \in ConcArgURLs :
         IF FindURL(urls, url) = 0
         THEN UNCHANGED <<task, umMu>>
         ELSE /\ umMu' = RLock(t)
              /\ task' = [task EXCEPT ![t] = [@ EXCEPT !.pc = "MarkDead_Lock", !.url = url]]
    /\ UNCHANGED <<urls, mu, clast>>
    /\ SeqIdle

\* Done, lines 104-120, then the deferred RUnlock.
DoneLocked(t) ==
    /\ task[t].pc = "Done_Lock"
    /\ LET i == FindURL(urls, task[t].url)
       IN  /\ mu[i] = "none"
           /\ \E in \in DoneInputs :
                urls' = DoneURLs(urls, task[t].url, in[1], in[2])
           /\ clast' = [op |-> "Done", idx |-> i, zero |-> urls[i].Load = 0]
    /\ umMu' = RUnlock(t)
    /\ task' = [task EXCEPT ![t] = IdleTask]
    /\ UNCHANGED mu
    /\ SeqIdle

\* MarkDead, lines 132-136, then the deferred RUnlock.
MarkDeadLocked(t) ==
    /\ task[t].pc = "MarkDead_Lock"
    /\ LET i == FindURL(urls, task[t].url)
       IN  /\ mu[i] = "none"
           /\ urls' = MarkDeadURLs(urls, task[t].url)
           /\ clast' = [op |-> "MarkDead", idx |-> i, zero |-> urls[i].Load = 0]
    /\ umMu' = RUnlock(t)
    /\ task' = [task EXCEPT ![t] = IdleTask]
    /\ UNCHANGED mu
    /\ SeqIdle

ConcNext ==
    \E t \in Tasks :
        \/ GetRLock(t) \/ GetExamine(t) \/ GetReturn(t) \/ GetNone(t)
        \/ ResumeLock(t) \/ ResumeAcquire(t) \/ ResumeMirror(t)
        \/ DoneRLock(t) \/ DoneLocked(t)
        \/ MarkDeadRLock(t) \/ MarkDeadLocked(t)

ConcSpec == ConcInit /\ [][ConcNext]_vars

(***************************************************************************)
(* Claims about the selector                                               *)
(***************************************************************************)
\* C1: under every interleaving of Get, Done and MarkDead, the load of every
\* mirror is at least 0.
C1_LoadNonNegative == \A i \in 1..Len(urls) : urls[i].Load >= 0

\* Done has just run on a mirror whose load was already 0.
C1_Witness ==
    /\ clast.op = "Done"
    /\ clast.zero
    /\ urls[clast.idx].Load = 0

\* The tasks whose lock task t is waiting for.
WaitsOn(t) ==
    LET holder(i) == IF mu[i] = "none" THEN {} ELSE {mu[i]}
    IN  CASE task[t].pc = "Get_scan" -> holder(ScanIndex(t))
          [] task[t].pc \in {"Done_Lock", "MarkDead_Lock"} ->
                 holder(FindURL(urls, task[t].url))
          [] task[t].pc = "resume_loop" -> holder(task[t].i + 1)
          [] task[t].pc = "resume_wait" ->
                 umMu.readers \cup (IF umMu.writer = "none" THEN {} ELSE {umMu.writer})
          [] task[t].pc = "Get_RLock" ->
                 (umMu.waiting \ {t}) \cup (IF umMu.writer = "none" THEN {} ELSE {umMu.writer})
          [] OTHER -> {}

\* A set of tasks each waiting for a lock that a task of the set holds.
Deadlock ==
    \E S \in SUBSET Tasks :
        /\ S # {}
        /\ \A t \in S : WaitsOn(t) \cap S # {}

\* C2: no reachable state has a set of tasks that wait for each other's locks.
C2_NoDeadlock == ~Deadlock

\* C3: every call of Get returns.
C3_GetTerminates == (getting # "idle") ~> (getting = "idle")

\* C4: Get does not return a dead mirror, and an iteration of Get ends in a
\* resurrection pass only if every mirror was dead.
C4_ResumeOnlyWhenAllDead ==
    /\ (last.op = "Get" /\ last.url # << >>)
          => ~urls[FindURL(urls, last.url)].Dead
    /\ last.resumed => ~last.alive

\* The mirrors of us in scan order from startIndex.
ScanOrder(us, startIndex) ==
    [i \in 1..Len(us) |-> ((startIndex + i - 1) % Len(us)) + 1]

\* Mirror sel is alive, no alive mirror has a smaller ratio, and no alive
\* mirror met earlier in the scan from startIndex has the same ratio.
IsMinFirst(us, startIndex, sel) ==
    LET ratio(i) == LoadRatio(us[i].Load, us[i].Weight)
        order == ScanOrder(us, startIndex)
        pos(i) == CHOOSE k \in 1..Len(us) : order[k] = i
    IN  /\ sel # 0
        /\ ~us[sel].Dead
        /\ \A j \in 1..Len(us) :
             ~us[j].Dead =>
                /\ ~RatioLess(ratio(j), ratio(sel))
                /\ pos(j) < pos(sel) => RatioLess(ratio(sel), ratio(j))

\* C5: when some mirror is alive, Get returns an alive mirror of smallest
\* load/weight ratio, the first such mirror in scan order.
C5_MinRatio ==
    [][ (GetPass /\ SomeAlive(urls)) =>
           /\ ~last'.resumed
           /\ IsMinFirst(urls, last'.start, FindURL(urls, last'.url)) ]_vars

(***************************************************************************)
(* Cache paths                                                             *)
(***************************************************************************)
\* Tokens that consist of hexadecimal digits: the digest of the blob.
HexTokens == {"K", "A"}

BlobPath == <<"/", "v2", "/", "x", "/", "blobs", "/", "sha256:", "K">>
ManifestPath == <<"/", "v2", "/", "x", "/", "manifests", "/", "latest">>
EmptyPath == << >>

\* The path of the blob of digest A.
SmallBlobPath == <<"/", "v2", "/", "x", "/", "blobs", "/", "sha256:", "A">>

\* A cacheable path in which no digest follows sha256: ; its last segment,
\* K.dat, is its key.
AliasPath == <<"/", "v2", "/", "x", "/", "blobs", "/", "sha256:", "/", "K", ".dat">>

\* r.URL.Path of the inbound requests.
Paths == {BlobPath, ManifestPath, EmptyPath}

\* %d of a part number.
PartToken(n) == <<"0", "1", "2", "3", "4", "5", "6", "7", "8", "9">>[n + 1]

\* strings.Contains
Contains(str, sub) ==
    \E i \in 1..(Len(str) - Len(sub) + 1) : SubSeq(str, i, i + Len(sub) - 1) = sub

ShouldCacheAny(urlPath) == TRUE

shouldCache(urlPath) == Contains(urlPath, <<"/", "blobs", "/", "sha256:">>)

\* The longest run of hexadecimal tokens of str from position i.
RECURSIVE HexRun(_, _)
HexRun(str, i) ==
    IF i <= Len(str) /\ str[i] \in HexTokens
    THEN <<str[i]>> \o HexRun(str, i + 1)
    ELSE << >>

\* parts[len(parts)-1] of strings.Split(urlPath, "/")
LastSegment(str) ==
    LET slashes == {i \in 1..Len(str) : str[i] = "/"}
        lastSlash == IF slashes = {} THEN 0
                     ELSE CHOOSE i \in slashes : \A j \in slashes : j <= i
    IN  SubSeq(str, lastSlash + 1, Len(str))

\* The first match of sha256:([a-fA-F0-9]+), else the last path segment.
extractHashFromURL(urlPath) ==
    LET matches == {i \in 1..(Len(urlPath) - 1) :
                       urlPath[i] = "sha256:" /\ urlPath[i + 1] \in HexTokens}
    IN  IF matches # {}
        THEN HexRun(urlPath, (CHOOSE i \in matches : \A j \in matches : i <= j) + 1)
        ELSE LastSegment(urlPath)

getCacheFilePath(urlPath) ==
    <<"cache", "/">> \o extractHashFromURL(urlPath) \o <<".dat">>

getCacheFilePathWithPart(urlPath, part) ==
    <<"cache", "/">> \o extractHashFromURL(urlPath) \o <<"_part_", PartToken(part), ".dat">>

getRecordFilePath(urlPath) ==
    <<"cache", "/">> \o extractHashFromURL(urlPath) \o <<"_record.txt">>

\* proxyURL.String(): the mirror's URL with Path set to the request path.
URLString(targetURL, path) == targetURL \o path

(***************************************************************************)
(* Files                                                                   *)
(***************************************************************************)
\* Sizes in units of one block of the body. chunkSize and the split
\* threshold are both 100 MiB in the source and bufSize is 64 KiB; the model
\* keeps chunkSize = threshold and bufSize <= chunkSize.
ChunkSize == 2
BufSize == 2
SplitThreshold == ChunkSize

NoFile == << >>

Max(a, b) == IF a > b THEN a ELSE b

\* os.Create: the file exists and is empty.
Create(files, path) == (path :> << >>) @@ files

\* File.Write of buf at offset off of the open file; a gap left by another
\* writer's truncation reads as zero bytes.
WriteAt(content, off, buf) ==
    [i \in 1..Max(Len(content), off + Len(buf)) |->
        IF i > off /\ i <= off + Len(buf) THEN buf[i - off]
        ELSE IF i <= Len(content) THEN content[i] ELSE 0]

\* A write through a handle whose file has been removed meanwhile goes to the
\* unlinked file and shows under no path.
Write(files, path, off, buf) ==
    IF path \in DOMAIN files
    THEN (path :> WriteAt(files[path], off, buf)) @@ files
    ELSE files

\* os.Remove; removing a path that does not exist changes nothing.
Remove(files, path) == [p \in DOMAIN files \ {path} |-> files[p]]

\* fmt.Sprintf("Parts: %d\nTotalSize: %d\n", part, totalReadSize)
RecordText(part, totalReadSize) == <<"Parts: ", part, "\nTotalSize: ", totalReadSize, "\n">>

\* fmt.Fscanf(recordFile, "Parts: %d\nTotalSize: %d\n", &partCount, &totalSize)
ScanParts(text) ==
    IF Len(text) >= 2 /\ text[1] = "Parts: " THEN text[2] ELSE 0

ScanTotalSize(text) ==
    IF Len(text) >= 4 /\ text[3] = "\nTotalSize: " THEN text[4] ELSE 0

(***************************************************************************)
(* serveFromCache                                                          *)
(***************************************************************************)
\* Lines 228-242: the parts from index part on, copied to w in order;
\* ok is false from the first part that cannot be opened.
RECURSIVE ServeParts(_, _, _, _, _)
ServeParts(files, cacheFilePath, part, partCount, sent) ==
    IF part >= partCount THEN [ok |-> TRUE, sent |-> sent]
    ELSE LET partFilePath == getCacheFilePathWithPart(cacheFilePath, part)
         IN  IF partFilePath \notin DOMAIN files
             THEN [ok |-> FALSE, sent |-> sent]
             ELSE ServeParts(files, cacheFilePath, part + 1, partCount,
                             sent \o files[partFilePath])

\* The result of serveFromCache(w, cacheFilePath) and the bytes it writes to w.
serveFromCache(files, cacheFilePath) ==
    LET recordFilePath == getRecordFilePath(cacheFilePath)
    IN  IF recordFilePath \notin DOMAIN files
        THEN IF cacheFilePath \notin DOMAIN files
             THEN [ok |-> FALSE, sent |-> << >>]
             ELSE [ok |-> TRUE, sent |-> files[cacheFilePath]]
        ELSE ServeParts(files, cacheFilePath, 0, ScanParts(files[recordFilePath]), << >>)

(***************************************************************************)
(* checkCacheFileSize                                                      *)
(***************************************************************************)
\* The blob of digest K: three chunks of distinct bytes.
Content == [i \in 1..(3 * ChunkSize) |-> i]

\* The blob of digest A: one block, below the split threshold.
SmallContent == <<7>>

\* fmt.Sprintf("%x", sha) of calculateSHA256: K for the blob of digest K,
\* A for the blob of digest A, another digest for any other content.
calculateSHA256(bytes) ==
    IF bytes = Content THEN <<"K">>
    ELSE IF bytes = SmallContent THEN <<"A">>
    ELSE <<"X">>

\* The file at url removed when its content does not hash to the key of url.
checkCacheFileSizeOnURL(files, url, contentLengthStr) ==
    IF contentLengthStr = << >> \/ url \notin DOMAIN files THEN files
    ELSE IF calculateSHA256(files[url]) # extractHashFromURL(url)
    THEN Remove(files, url)
    ELSE files

\* resp.Header.Get("Content-Length"): empty when the length is not declared.
ContentLengthHeader(contentLength) ==
    IF contentLength >= 0 THEN <<contentLength>> ELSE << >>

RECURSIVE RemoveParts(_, _, _, _)
\* Lines 537-540: os.Remove of the parts from index part on.
RemoveParts(files, cacheFilePath, part, partCount) ==
    IF part >= partCount THEN files
    ELSE RemoveParts(Remove(files, getCacheFilePathWithPart(cacheFilePath, part)),
                     cacheFilePath, part + 1, partCount)

\* The files after checkCacheFileSize(url, contentLengthStr, logger).
checkCacheFileSize(files, url, contentLengthStr) ==
    LET cacheFilePath == getCacheFilePath(url)
        recordFilePath == getRecordFilePath(cacheFilePath)
    IN  IF contentLengthStr = << >> THEN files
        ELSE IF recordFilePath \notin DOMAIN files
        THEN IF cacheFilePath \notin DOMAIN files THEN files
             ELSE IF calculateSHA256(files[cacheFilePath]) # extractHashFromURL(url)
                  THEN Remove(files, cacheFilePath)
                  ELSE files
        ELSE LET partCount == ScanParts(files[recordFilePath])
                 reader == ServeParts(files, cacheFilePath, 0, partCount, << >>)
             IN  IF ~reader.ok THEN files
                 ELSE IF calculateSHA256(reader.sent) # extractHashFromURL(url)
                      THEN Remove(RemoveParts(files, cacheFilePath, 0, partCount),
                                  recordFilePath)
                      ELSE files

\* The files checkCacheFileSize(url, contentLengthStr, logger) passes to
\* calculateSHA256: none without a Content-Length (line 465), the flat file
\* if it opens (lines 473-480), or the parts the record names if all of
\* them open (lines 497-520).
Rehashed(files, url, contentLengthStr) ==
    LET cacheFilePath == getCacheFilePath(url)
        recordFilePath == getRecordFilePath(cacheFilePath)
    IN  IF contentLengthStr = << >> THEN {}
        ELSE IF recordFilePath \notin DOMAIN files
        THEN {cacheFilePath} \cap DOMAIN files
        ELSE LET partCount == ScanParts(files[recordFilePath])
             IN  IF ServeParts(files, cacheFilePath, 0, partCount, << >>).ok
                 THEN {getCacheFilePathWithPart(cacheFilePath, n) : n \in 0..(partCount - 1)}
                 ELSE {}

(***************************************************************************)
(* ProxySpec: proxyRequest for concurrent inbound requests; the selector   *)
(* is driven through whole calls, the body is streamed one Read at a time. *)
(***************************************************************************)
RetryBudget == 6
MaxAttempts == 7    \* RetrySpec: a request starts no attempt beyond this one
ConcAttempts == 2   \* ProxySpec: the same, for each of the concurrent requests

Reqs == {"r1", "r2"}

\* The body of an upstream response with an error status.
ErrorBody == <<0>>

\* The blob a mirror holds under the request path.
Blob(path) == IF extractHashFromURL(path) = <<"A">> THEN SmallContent ELSE Content

\* What client.Do yields for a request path: a transport failure, a 404, the
\* blob with a declared or an undeclared length, an error status with a
\* short body; for other paths a 200 with a short body.
Upstream(path) ==
    { [err |-> TRUE, status |-> 0, cl |-> 0, body |-> << >>],
      [err |-> FALSE, status |-> 404, cl |-> -1, body |-> << >>] }
    \cup
    IF shouldCache(path)
    THEN { [err |-> FALSE, status |-> 200, cl |-> Len(Blob(path)), body |-> Blob(path)],
           [err |-> FALSE, status |-> 200, cl |-> -1, body |-> Blob(path)],
           [err |-> FALSE, status |-> 500, cl |-> Len(ErrorBody), body |-> ErrorBody] }
    ELSE { [err |-> FALSE, status |-> 200, cl |-> 1, body |-> <<9>>] }

\* time.Since(startTime).Seconds() of an upstream call.
ResponseTime == 1

\* The verification task of a request: not started, started by the go
\* statement with its two arguments, or finished.
NoVerify == [pc |-> "none", url |-> << >>, contentLengthStr |-> << >>]

\* w.WriteHeader(code) on a response whose status is status (0: no header
\* written yet): the first WriteHeader, or the first Write with its implicit
\* WriteHeader(200), fixes the status; later calls change nothing.
WriteHeader(status, code) == IF status = 0 THEN code ELSE status

\* The line http.Error writes after the header.
NoAvailableURLs == <<"No available URLs">>

\* diskErr: an os.Create or a Write of a cache file has failed for this
\* request.
\* status: the status of the response to the caller, 0 while no header is
\* written; respStatus: resp.StatusCode of the upstream response being
\* streamed; created: the paths this request has passed to os.Create.
NewRequest(path) ==
    [pc |-> "start", path |-> path, tickets |-> 0, deferred |-> 0, attempts |-> 0,
     targetURL |-> << >>, status |-> 0, respStatus |-> 0, contentLength |-> 0,
     body |-> << >>, sent |-> << >>,
     hit |-> FALSE, racy |-> FALSE, sawSplit |-> FALSE, diskErr |-> FALSE,
     cacheFilePath |-> getCacheFilePath(path), cacheFile |-> NoFile, offset |-> 0,
     split |-> FALSE, part |-> 0, totalReadSize |-> 0,
     created |-> {}, verify |-> NoVerify]

\* The cache directory when the server starts.
EmptyDir == [path \in {} |-> << >>]

\* Two mirrors registered, the cache directory, the requests accepted.
ProxyInitWith(reqs, cap, dirs, paths) ==
    /\ urls = Registered
    /\ fs \in dirs
    /\ req \in [reqs -> {NewRequest(path) : path \in paths}]
    /\ attemptCap = cap
    /\ getting = "idle"
    /\ passes = 0
    /\ last = NoCall
    /\ ConcIdle
    /\ S3Idle
    /\ ServersIdle

ProxyInit == ProxyInitWith(Reqs, ConcAttempts, {EmptyDir}, Paths)

RetryInit == ProxyInitWith({"r1"}, MaxAttempts, {EmptyDir}, Paths)

NotProxy == UNCHANGED <<getting, passes, last, concVars, s3Vars, srvVars>>

\* The function returns: the deferred increments of tickets run now, and the
\* server completes a response on which no header was written with status 200.
Return(q, pc) ==
    [q EXCEPT !.pc = pc, !.tickets = @ + q.deferred, !.deferred = 0,
              !.status = WriteHeader(@, 200),
              !.targetURL = << >>, !.contentLength = 0,
              !.body = << >>, !.cacheFile = NoFile, !.offset = 0,
              !.cacheFilePath = getCacheFilePath(q.path),
              !.split = FALSE, !.part = 0, !.totalReadSize = 0]

\* Lines 249-256: a cacheable path is served from the cache when
\* serveFromCache succeeds.
CheckCache(r) ==
    /\ r \in DOMAIN req
    /\ req[r].pc = "start"
    /\ LET q == req[r]
           served == serveFromCache(fs, q.cacheFilePath)
       IN  IF shouldCache(q.path)
           THEN req' = [req EXCEPT ![r] =
                   [(IF served.ok THEN Return(q, "done") ELSE [q EXCEPT !.pc = "attempt"])
                    EXCEPT !.hit = served.ok,
                           !.sent = served.sent,
                           !.status = IF served.sent # << >> \/ served.ok
                                      THEN WriteHeader(q.status, 200)
                                      ELSE q.status,
                           !.racy = \E o \in DOMAIN req \ {r} :
                                       /\ req[o].pc = "stream"
                                       /\ req[o].cacheFile = q.cacheFilePath,
                           !.sawSplit = getRecordFilePath(q.path) \in DOMAIN fs]]
           ELSE req' = [req EXCEPT ![r] = [q EXCEPT !.pc = "attempt"]]
    /\ UNCHANGED <<urls, fs, attemptCap>>
    /\ NotProxy

\* Lines 265-283, the head of the retry loop: the increment of tickets is
\* deferred to the return of proxyRequest; the budget test; then Get up to
\* its return or its call of resume.
ProxyGet(r) ==
    /\ r \in DOMAIN req
    /\ req[r].pc \in {"attempt", "Get_loop"}
    /\ req[r].pc = "attempt" => req[r].attempts < attemptCap
    /\ LET q == IF req[r].pc = "attempt"
                THEN [req[r] EXCEPT !.deferred = @ + 1]
                ELSE req[r]
       IN  IF req[r].pc = "attempt" /\ q.tickets >= RetryBudget
           THEN /\ req' = [req EXCEPT ![r] = Return(q, "failed")]
                /\ UNCHANGED urls
           ELSE IF Len(urls) = 0
           THEN /\ req' = [req EXCEPT ![r] =
                           Return([q EXCEPT !.status = WriteHeader(@, 503),
                                            !.sent = @ \o NoAvailableURLs], "failed")]
                /\ UNCHANGED urls
           ELSE \E startIndex \in 0..(Len(urls) - 1) :
                  LET sel == Scan(urls, startIndex)
                  IN  IF sel # 0
                      THEN /\ urls' = Selected(urls, sel)
                           /\ req' = [req EXCEPT ![r] = [q EXCEPT
                                        !.pc = "forward",
                                        !.attempts = @ + 1,
                                        !.targetURL = urls[sel].URL]]
                      ELSE /\ req' = [req EXCEPT ![r] = [q EXCEPT !.pc = "resume"]]
                           /\ UNCHANGED urls
    /\ UNCHANGED <<fs, attemptCap>>
    /\ NotProxy

\* Get, line 93.
ProxyResume(r) ==
    /\ r \in DOMAIN req
    /\ req[r].pc = "resume"
    /\ urls' = resume(urls)
    /\ req' = [req EXCEPT ![r] = [@ EXCEPT !.pc = "Get_loop"]]
    /\ UNCHANGED <<fs, attemptCap>>
    /\ NotProxy

\* Lines 285-339: the upstream call and its outcome. A transport failure
\* continues with the next attempt; a response is passed to Done, a 404 also
\* to MarkDead, both under proxyURL.String(); any other status starts the
\* streaming of the body.
Forward(r) ==
    /\ r \in DOMAIN req
    /\ req[r].pc = "forward"
    /\ \E resp \in Upstream(req[r].path) :
         LET q == req[r]
             proxyURL == URLString(q.targetURL, q.path)
             released == DoneURLs(urls, proxyURL, ResponseTime, resp.cl)
         IN  IF resp.err
             THEN /\ req' = [req EXCEPT ![r] = [q EXCEPT !.pc = "attempt", !.targetURL = << >>]]
                  /\ UNCHANGED urls
             ELSE IF resp.status = 404
             THEN /\ urls' = MarkDeadURLs(released, proxyURL)
                  /\ req' = [req EXCEPT ![r] = [q EXCEPT !.pc = "attempt", !.targetURL = << >>]]
             ELSE /\ urls' = released
                  /\ req' = [req EXCEPT ![r] = [q EXCEPT
                               !.pc = "stream",
                               !.status = WriteHeader(@, resp.status),
                               !.respStatus = resp.status,
                               !.contentLength = resp.cl,
                               !.body = resp.body,
                               !.split = resp.cl > SplitThreshold,
                               !.cacheFile = NoFile, !.offset = 0,
                               !.part = 0, !.totalReadSize = 0]]
    /\ UNCHANGED <<fs, attemptCap>>
    /\ NotProxy

\* A new part already when the Read takes the current part up to chunkSize.
OpensAtLimit(q, n) ==
    /\ shouldCache(q.path)
    /\ IF q.split
       THEN q.cacheFile = NoFile \/ q.totalReadSize + n >= ChunkSize
       ELSE q.cacheFile = NoFile

\* Lines 345-347 and 364: this Read of n bytes makes proxyRequest call
\* os.Create, for the flat file or for the next part.
Opens(q, n) ==
    /\ shouldCache(q.path)
    /\ IF q.split
       THEN q.cacheFile = NoFile \/ q.totalReadSize + n > ChunkSize
       ELSE q.cacheFile = NoFile

\* StreamChunk when cacheFile.Write puts only the first k of the n bytes
\* into the file (k = n: the write succeeds; its result is not looked at).
StreamChunkWith(files, q, n, k) ==
    LET buf == SubSeq(q.body, 1, n)
        cache == shouldCache(q.path)
        roll == q.split /\ Opens(q, n)
        open == Opens(q, n)
        path == IF ~open THEN q.cacheFile
                ELSE IF q.split THEN getCacheFilePathWithPart(q.path, q.part)
                ELSE q.cacheFilePath
        off == IF open THEN 0 ELSE q.offset
        created == IF open THEN Create(files, path) ELSE files
    IN  [fs |-> IF cache THEN Write(created, path, off, SubSeq(buf, 1, k)) ELSE files,
         q |-> [q EXCEPT
                  !.body = SubSeq(q.body, n + 1, Len(q.body)),
                  !.cacheFile = IF cache THEN path ELSE @,
                  !.cacheFilePath = IF open THEN path ELSE @,
                  !.offset = IF cache THEN off + k ELSE @,
                  !.part = IF cache /\ roll THEN @ + 1 ELSE @,
                  !.totalReadSize = IF cache /\ q.split
                                    THEN (IF roll THEN 0 ELSE @) + n
                                    ELSE @,
                  !.created = IF open THEN @ \cup {path} ELSE @]]

\* Lines 341-374, a Read of n bytes and their way into the cache: on a
\* cacheable path the bytes go to the flat file, or to the current part, a new
\* part being opened when this Read would take the part beyond chunkSize.
\* The result is the files and the locals of the request after line 374.
StreamChunk(files, q, n) == StreamChunkWith(files, q, n, n)

\* Lines 341-383, one Read of n bytes: into the cache, then to the caller.
ReadBody(r) ==
    /\ r \in DOMAIN req
    /\ req[r].pc = "stream"
    /\ req[r].body # << >>
    /\ \E n \in 1..Min(BufSize, Len(req[r].body)) :
         LET chunk == StreamChunk(fs, req[r], n)
         IN  /\ fs' = chunk.fs
             /\ req' = [req EXCEPT ![r] = [chunk.q EXCEPT
                          !.sent = @ \o SubSeq(req[r].body, 1, n)]]
    /\ UNCHANGED <<urls, attemptCap>>
    /\ NotProxy

\* Lines 375-382: the bytes of a Read went into the cache and w.Write fails:
\* os.Remove(cacheFilePath) on a cacheable path, and proxyRequest returns.
WriteError(r) ==
    /\ r \in DOMAIN req
    /\ req[r].pc = "stream"
    /\ req[r].body # << >>
    /\ \E n \in 1..Min(BufSize, Len(req[r].body)) :
         LET chunk == StreamChunk(fs, req[r], n)
         IN  /\ fs' = IF shouldCache(req[r].path)
                      THEN Remove(chunk.fs, chunk.q.cacheFilePath)
                      ELSE chunk.fs
             /\ req' = [req EXCEPT ![r] = Return(chunk.q, "failed")]
    /\ UNCHANGED <<urls, attemptCap>>
    /\ NotProxy

\* Lines 387-393: resp.Body.Read fails with an error other than io.EOF:
\* os.Remove(cacheFilePath) on a cacheable path, and proxyRequest returns.
ReadError(r) ==
    /\ r \in DOMAIN req
    /\ req[r].pc = "stream"
    /\ fs' = IF shouldCache(req[r].path)
             THEN Remove(fs, req[r].cacheFilePath)
             ELSE fs
    /\ req' = [req EXCEPT ![r] = Return(req[r], "failed")]
    /\ UNCHANGED <<urls, attemptCap>>
    /\ NotProxy

\* Lines 384-424, io.EOF: on a cacheable path a split entry gets its record
\* file and the go statement starts checkCacheFileSize; proxyRequest returns.
Finish(r) ==
    /\ r \in DOMAIN req
    /\ req[r].pc = "stream"
    /\ req[r].body = << >>
    /\ LET q == req[r]
           recordFilePath == getRecordFilePath(q.path)
       IN  IF shouldCache(q.path)
           THEN /\ fs' = IF q.split
                         THEN (recordFilePath :> RecordText(q.part, q.totalReadSize)) @@ fs
                         ELSE fs
                /\ req' = [req EXCEPT ![r] = [Return(q, "done") EXCEPT
                             !.created = IF q.split THEN @ \cup {recordFilePath} ELSE @,
                             !.verify = [pc |-> "pending", url |-> q.cacheFilePath,
                                         contentLengthStr |->
                                             ContentLengthHeader(q.contentLength)]]]
           ELSE /\ fs' = fs
                /\ req' = [req EXCEPT ![r] = Return(q, "done")]
    /\ UNCHANGED <<urls, attemptCap>>
    /\ NotProxy

\* The goroutine started at line 413 runs checkCacheFileSize.
VerifyTask(r) ==
    /\ r \in DOMAIN req
    /\ req[r].verify.pc = "pending"
    /\ fs' = checkCacheFileSize(fs, req[r].verify.url, req[r].verify.contentLengthStr)
    /\ req' = [req EXCEPT ![r].verify.pc = "ran"]
    /\ UNCHANGED <<urls, attemptCap>>
    /\ NotProxy

ProxyNext ==
    \E r \in Reqs :
        \/ CheckCache(r) \/ ProxyGet(r) \/ ProxyResume(r)
        \/ Forward(r) \/ ReadBody(r) \/ WriteError(r) \/ ReadError(r)
        \/ Finish(r) \/ VerifyTask(r)

ProxySpec == ProxyInit /\ [][ProxyNext]_vars

\* One request, followed through MaxAttempts attempts.
RetrySpec == RetryInit /\ [][ProxyNext]_vars

(***************************************************************************)
(* CacheSpec: one request against a cache directory left by earlier        *)
(* requests.                                                               *)
(***************************************************************************)
CacheAttempts == 3  \* CacheSpec: the request starts no attempt beyond this one

\* The flat entry a request for path leaves when the length of the blob is
\* not declared.
FlatEntry(path) == (getCacheFilePath(path) :> Content)

\* The split entry a request for path leaves when the declared length of the
\* blob is above the threshold and every Read fills a part.
SplitEntry(path) ==
    [p \in {getCacheFilePathWithPart(path, n) : n \in 0..2} |->
        LET n == CHOOSE m \in 0..2 : getCacheFilePathWithPart(path, m) = p
        IN  SubSeq(Content, n * ChunkSize + 1, (n + 1) * ChunkSize)]
    @@ (getRecordFilePath(path) :> RecordText(3, ChunkSize))

\* The cache directories the request meets: empty; a flat and a split entry
\* of the blob; a split entry written for AliasPath, whole, and after a
\* second write for AliasPath failed in its part 1 and removed it.
CacheDirs ==
    { EmptyDir,
      FlatEntry(BlobPath),
      SplitEntry(BlobPath),
      SplitEntry(AliasPath),
      Remove(SplitEntry(AliasPath), getCacheFilePathWithPart(AliasPath, 1)) }

CachePaths == Paths \cup {AliasPath}

CacheInit == ProxyInitWith({"r1"}, CacheAttempts, CacheDirs, CachePaths)

CacheSpec == CacheInit /\ [][ProxyNext]_vars

(***************************************************************************)
(* DiskSpec: one request on a disk whose os.Create and Write calls can     *)
(* fail.                                                                   *)
(***************************************************************************)
\* Lines 353-357 and 365-369: os.Create of the flat file or of the next part
\* fails; the error is logged and proxyRequest returns. The bytes of this
\* Read reach neither the cache nor the caller.
CreateError(r) ==
    /\ r \in DOMAIN req
    /\ req[r].pc = "stream"
    /\ req[r].body # << >>
    /\ \E n \in 1..Min(BufSize, Len(req[r].body)) :
         /\ Opens(req[r], n)
         /\ req' = [req EXCEPT ![r] = [Return(req[r], "failed") EXCEPT !.diskErr = TRUE]]
    /\ UNCHANGED <<urls, fs, attemptCap>>
    /\ NotProxy

\* Lines 360 and 372: cacheFile.Write fails after k of the n bytes; its
\* result is discarded, and the n bytes go to the caller.
CacheWriteError(r) ==
    /\ r \in DOMAIN req
    /\ req[r].pc = "stream"
    /\ req[r].body # << >>
    /\ shouldCache(req[r].path)
    /\ \E n \in 1..Min(BufSize, Len(req[r].body)) :
         \E k \in 0..(n - 1) :
            LET chunk == StreamChunkWith(fs, req[r], n, k)
            IN  /\ fs' = chunk.fs
                /\ req' = [req EXCEPT ![r] = [chunk.q EXCEPT
                             !.sent = @ \o SubSeq(req[r].body, 1, n),
                             !.diskErr = TRUE]]
    /\ UNCHANGED <<urls, attemptCap>>
    /\ NotProxy

\* Lines 404-408: os.Create of the record file fails after the whole body
\* went to the caller; proxyRequest returns before the go statement.
RecordError(r) ==
    /\ r \in DOMAIN req
    /\ req[r].pc = "stream"
    /\ req[r].body = << >>
    /\ shouldCache(req[r].path)
    /\ req[r].split
    /\ req' = [req EXCEPT ![r] = [Return(req[r], "done") EXCEPT !.diskErr = TRUE]]
    /\ UNCHANGED <<urls, fs, attemptCap>>
    /\ NotProxy

DiskNext ==
    \/ ProxyNext
    \/ \E r \in Reqs : CreateError(r) \/ CacheWriteError(r) \/ RecordError(r)

DiskInit == ProxyInitWith({"r1"}, CacheAttempts, {EmptyDir}, Paths)

DiskSpec == DiskInit /\ [][DiskNext]_vars

(***************************************************************************)
(* VerifySpec: one request for a blob below or above the split threshold,  *)
(* in a cache directory that is empty or holds the flat entry of the key    *)
(* A.dat.                                                                  *)
(***************************************************************************)
\* The flat entry that a request for /v2/x/blobs/sha256:/A.dat left.
AliasSmallEntry == (<<"cache", "/", "A", ".dat", ".dat">> :> SmallContent)

VerifyInit ==
    ProxyInitWith({"r1"}, CacheAttempts, {EmptyDir, AliasSmallEntry},
                  Paths \cup {SmallBlobPath})

VerifySpec == VerifyInit /\ [][ProxyNext]_vars

(***************************************************************************)
(* GatewaySpec: CacheSpec for a server that registered its mirrors and for *)
(* one that registered none.                                               *)
(***************************************************************************)
GatewayInit ==
    /\ urls \in {NewURLManager, Registered}
    /\ fs \in CacheDirs
    /\ req \in [{"r1"} -> {NewRequest(path) : path \in CachePaths}]
    /\ attemptCap = CacheAttempts
    /\ getting = "idle"
    /\ passes = 0
    /\ last = NoCall
    /\ ConcIdle
    /\ S3Idle
    /\ ServersIdle

GatewaySpec == GatewayInit /\ [][ProxyNext]_vars

(***************************************************************************)
(* KeySpec: one request for each of a family of paths: the digest K after  *)
(* sha256:, between segments with and without a sha256: of their own, and   *)
(* paths without sha256:.                                                  *)
(***************************************************************************)
\* The segments before the segment sha256:K, and those after it.
KeyPrefixes ==
    { << >>,
      <<"/", "v2", "/", "x", "/", "blobs">>,
      <<"/", "v2", "/", "sha256:", "A", "/", "blobs">> }

KeySuffixes == { << >>, <<"/", "y">>, <<"/", "sha256:", "A">> }

DigestSegment == <<"/", "sha256:", "K">>

\* Paths without sha256:, the last one ending in a slash.
PlainPaths == {ManifestPath, EmptyPath, <<"/", "v2", "/">>}

KeyPaths ==
    {pre \o DigestSegment \o post : pre \in KeyPrefixes, post \in KeySuffixes}
        \cup PlainPaths \cup {BlobPath}

KeyInit == ProxyInitWith({"r1"}, CacheAttempts, {EmptyDir}, KeyPaths)

KeySpec == KeyInit /\ [][ProxyNext]_vars

(***************************************************************************)
(* Claims about proxyRequest and the cache                                 *)
(***************************************************************************)
\* C6: a request makes at most RetryBudget upstream attempts.
C6_AtMostSixAttempts == \A r \in DOMAIN req : req[r].attempts <= RetryBudget

\* C7: when an upstream attempt ends in a transport failure or a 404, the
\* mirror Get selected for it is dead with load 0 as the request goes on to
\* its next attempt.
C7_FailedMirrorMarkedDead ==
    [][ \A r \in DOMAIN req :
          (req[r].pc = "forward" /\ req'[r].pc = "attempt") =>
             LET i == FindURL(urls, req[r].targetURL)
             IN  urls'[i].Dead /\ urls'[i].Load = 0 ]_vars

\* C8: when an upstream attempt yields a response that is streamed (neither a
\* transport failure nor a 404), the load of the mirror Get selected for it
\* goes down by one and its weight is recomputed from the new load, the
\* elapsed time and the declared content length.
C8_ResponseReleasesMirror ==
    [][ \A r \in DOMAIN req :
          (req[r].pc = "forward" /\ req'[r].pc = "stream") =>
             LET i == FindURL(urls, req[r].targetURL)
             IN  /\ urls'[i].Load = urls[i].Load - 1
                 /\ \E resp \in Upstream(req[r].path) :
                      urls'[i].Weight = DoneWeight(urls'[i].Load, ResponseTime, resp.cl) ]_vars

\* C9: no request is served from the cache out of a file that another request
\* is still writing.
C9_NoPartialEntryServed == \A r \in DOMAIN req : ~(req[r].hit /\ req[r].racy)

\* C10: a request for the blob that looks into the cache when the split entry
\* of the blob is complete (its record file written) is served from the
\* cache, and receives the content of the blob.
C10_SplitRoundTrip ==
    \A r \in DOMAIN req :
        req[r].sawSplit => (req[r].hit /\ req[r].sent = Content)

(***************************************************************************)
(* Claims about the cache store                                            *)
(***************************************************************************)
\* The entry of the key of path in the layout of the write path: its record
\* file and the parts the record counts, or else its flat file; whether every
\* file of it is there, and the bytes it holds.
StoredEntry(files, path) ==
    LET recordFilePath == getRecordFilePath(path)
        flat == getCacheFilePath(path)
    IN  IF recordFilePath \in DOMAIN files
        THEN LET partCount == ScanParts(files[recordFilePath])
                 parts == ServeParts(files, path, 0, partCount, << >>)
             IN  [exists |-> TRUE, complete |-> parts.ok, bytes |-> parts.sent,
                  paths |-> {recordFilePath} \cup
                            ({getCacheFilePathWithPart(path, n) : n \in 0..(partCount - 1)}
                                \cap DOMAIN files)]
        ELSE IF flat \in DOMAIN files
        THEN [exists |-> TRUE, complete |-> TRUE, bytes |-> files[flat], paths |-> {flat}]
        ELSE [exists |-> FALSE, complete |-> FALSE, bytes |-> << >>, paths |-> {}]

\* The key of path is a digest.
KeyIsDigest(path) ==
    /\ Len(extractHashFromURL(path)) = 1
    /\ extractHashFromURL(path)[1] \in HexTokens

\* C11: when the verification of a request's write runs and the bytes stored
\* for the key do not hash to the key, the files of the entry are removed and
\* a read of the key finds nothing.
C11_CorruptEntryRemoved ==
    [][ \A r \in DOMAIN req :
          LET path == req[r].path
              entry == StoredEntry(fs, path)
          IN  ( /\ req[r].verify.pc = "pending"
                /\ req'[r].verify.pc = "ran"
                /\ KeyIsDigest(path)
                /\ entry.complete
                /\ calculateSHA256(entry.bytes) # extractHashFromURL(path) )
              => /\ StoredEntry(fs', path).paths = {}
                 /\ ~serveFromCache(fs', getCacheFilePath(path)).ok ]_vars

\* C12: when the streaming of a cacheable request fails, no file the request
\* created is left and no record file has been written.
C12_FailedWriteLeavesNothing ==
    [][ \A r \in DOMAIN req :
          ( /\ req[r].pc = "stream"
            /\ req'[r].pc = "failed"
            /\ shouldCache(req[r].path) )
          => /\ req'[r].created \cap DOMAIN fs' = {}
             /\ getRecordFilePath(req[r].path) \in DOMAIN fs'
                   => getRecordFilePath(req[r].path) \in DOMAIN fs ]_vars

\* C13: a request that goes on to the upstream fetch after its cache read has
\* received no byte from the cache.
C13_MissSendsNothing ==
    [][ \A r \in DOMAIN req :
          (req[r].pc = "start" /\ req'[r].pc = "attempt") => req'[r].sent = << >> ]_vars

RECURSIVE PartsSize(_, _, _)
\* The bytes in the parts 0..partCount-1 of the key of path.
PartsSize(files, path, partCount) ==
    IF partCount = 0 THEN 0
    ELSE LET p == getCacheFilePathWithPart(path, partCount - 1)
         IN  (IF p \in DOMAIN files THEN Len(files[p]) ELSE 0)
             + PartsSize(files, path, partCount - 1)

\* C14: when a split write completes, the record file states the number of
\* parts the request created and the number of bytes in them; a flat write
\* creates no record file.
C14_RecordStatesTotals ==
    [][ \A r \in DOMAIN req :
          LET recordFilePath == getRecordFilePath(req[r].path)
          IN  ( /\ req[r].pc = "stream"
                /\ req'[r].pc = "done"
                /\ shouldCache(req[r].path) )
              => IF req[r].split
                 THEN /\ recordFilePath \in DOMAIN fs'
                      /\ ScanParts(fs'[recordFilePath])
                           = Cardinality(req'[r].created \ {recordFilePath})
                      /\ ScanTotalSize(fs'[recordFilePath])
                           = PartsSize(fs', req[r].path, ScanParts(fs'[recordFilePath]))
                 ELSE recordFilePath \in DOMAIN fs' => recordFilePath \in DOMAIN fs ]_vars

\* C15: a request for a cacheable path whose key has a complete entry is
\* served from the cache and returns; no mirror changes.
C15_CompleteEntryServed ==
    [][ \A r \in DOMAIN req :
          ( /\ req[r].pc = "start"
            /\ req'[r].pc # "start"
            /\ shouldCache(req[r].path)
            /\ StoredEntry(fs, req[r].path).complete )
          => /\ req'[r].pc = "done"
             /\ req'[r].hit
             /\ urls' = urls ]_vars

\* The path contains the marker of a blob digest.
HasBlobMarker(path) == Contains(path, <<"/", "blobs", "/", "sha256:">>)

\* C16: no step of a request for a path without the marker changes a file of
\* the cache directory.
C16_UncacheableLeavesCache ==
    [][ \A r \in DOMAIN req :
          (~HasBlobMarker(req[r].path) /\ req'[r] # req[r]) => fs' = fs ]_vars

\* A request for a path without the marker has streamed bytes to the caller
\* and ended in failure, in a cache directory that holds files.
C16_Witness ==
    \E r \in DOMAIN req :
        /\ ~HasBlobMarker(req[r].path)
        /\ req[r].pc = "failed"
        /\ req[r].sent # << >>
        /\ DOMAIN fs # {}

\* C17: for a cacheable path, the record file and the parts that the read
\* path looks up from cacheFilePath, and the flat file that the verification
\* looks up from cacheFilePath, are those the write path creates.
C17_SamePaths ==
    \A r \in DOMAIN req :
        shouldCache(req[r].path) =>
            LET cacheFilePath == getCacheFilePath(req[r].path)
            IN  /\ getRecordFilePath(cacheFilePath) = getRecordFilePath(req[r].path)
                /\ \A n \in 0..2 :
                      getCacheFilePathWithPart(cacheFilePath, n)
                         = getCacheFilePathWithPart(req[r].path, n)
                /\ getCacheFilePath(cacheFilePath) = cacheFilePath

(***************************************************************************)
(* Claims about Done and the weights                                       *)
(***************************************************************************)
\* The mirrors of us that are alive.
Alive(us) == {i \in 1..Len(us) : ~us[i].Dead}

\* C18: when exactly one mirror is alive, Get returns that mirror, and a Done
\* on a mirror of load 1 leaves it with load 0.
C18_LastAliveMirror ==
    [][ /\ (GetPass /\ Cardinality(Alive(urls)) = 1) =>
             \E i \in Alive(urls) : ~last'.resumed /\ last'.url = urls[i].URL
        /\ Done =>
             LET i == FindURL(urls, last'.url)
             IN  (i # 0 /\ urls[i].Load = 1) => urls'[i].Load = 0 ]_vars

\* k as the claim states it, from the throughput contentLength/responseTime.
ClaimedK(responseTime, contentLength) ==
    CASE contentLength > 1000000000 * responseTime -> 1000
      [] /\ contentLength > 1000000 * responseTime
         /\ ~(contentLength > 1000000000 * responseTime) -> 100000
      [] OTHER -> 1000000


\* C19: Done on a registered mirror takes one from its load unless the load
\* is 0, and sets the weight to 0.7*load + 0.3*(bytes/elapsed/k) with the new
\* load and the k of the throughput's range.
C19_DoneFormula ==
    [][ DoneAny =>
          LET i == FindURL(urls, last'.url)
              rt == last'.responseTime
              cl == last'.contentLength
          IN  i # 0 =>
                /\ urls'[i].Load = IF urls[i].Load = 0 THEN 0 ELSE urls[i].Load - 1
                /\ urls'[i].Weight =
                       FixedAdd(Tenths(7 * urls'[i].Load),
                                RateTerm(rt, cl, ClaimedK(rt, cl))) ]_vars

\* Done with a throughput above 1e9 has run on a registered mirror that still
\* carries load.
C19_Witness ==
    /\ last.op = "Done"
    /\ last.contentLength > 1000000000 * last.responseTime
    /\ FindURL(urls, last.url) # 0
    /\ urls[FindURL(urls, last.url)].Load > 0
    /\ urls[FindURL(urls, last.url)].Weight.int >= 300000

\* C20: the weight of every mirror is above 0.
C20_WeightPositive ==
    \A i \in 1..Len(urls) : FixedLess(FixedZero, urls[i].Weight)

(***************************************************************************)
(* S3Spec: S3Client.UploadFile of a local file followed by DownloadFile of *)
(* its key, src/s3/model/client.go. The bucket is the S3 service: a simple *)
(* upload stores the body under the key; a multipart upload collects the   *)
(* parts by number and, on completion, stores their concatenation in the   *)
(* order of the listed part numbers, which must ascend and not be empty.   *)
(* Every call of the service can also fail.                                *)
(***************************************************************************)
MaxFileLen == 3     \* the local file has at most this many bytes
MaxPartSize == 3    \* partSize is at most this
Retries == 3        \* the retries argument of UploadPartWithRetry

FileBytes == {1, 2}

FileContents == UNION {[1..n -> FileBytes] : n \in 0..MaxFileLen}

\* partSize: -1 stands for the negative values.
PartSizes == (-1)..MaxPartSize

\* The object under the key in the bucket, or the downloaded file.
NoObject == [exists |-> FALSE, body |-> << >>]
Object(body) == [exists |-> TRUE, body |-> body]

\* The object an earlier upload left under the key.
OldObject == Object(<<9>>)

NoParts == [partNumber \in {} |-> << >>]

\* The state before UploadFile(filePath, partSize): the content of the local
\* file and the bucket; the locals of UploadParts and UploadPartWithRetry.
\* uploadResp and err are TRUE for a non-nil value.
S3Start(file, partSize, object) ==
    [pc |-> "UploadFile", file |-> file, partSize |-> partSize, object |-> object,
     offset |-> 0, partNumber |-> 1, retries |-> Retries, i |-> 0, buffer |-> << >>,
     uploadResp |-> FALSE, err |-> FALSE,
     parts |-> NoParts, completedParts |-> << >>, downloaded |-> NoObject]

S3Init ==
    /\ s3 \in {S3Start(file, partSize, object) :
                  file \in FileContents, partSize \in PartSizes,
                  object \in {NoObject, OldObject}}
    /\ urls = NewURLManager
    /\ getting = "idle"
    /\ passes = 0
    /\ last = NoCall
    /\ ConcIdle
    /\ ProxyIdle
    /\ ServersIdle

NotS3 == UNCHANGED <<selVars, concVars, proxyVars, srvVars>>

\* Lines 45-55: multipart when the file is larger than partSize.
UploadFile ==
    /\ s3.pc = "UploadFile"
    /\ s3' = [s3 EXCEPT !.pc = IF Len(s3.file) > s3.partSize
                              THEN "MultipartUploadFile"
                              ELSE "SimpleUploadFile"]
    /\ NotS3

\* Lines 58-80: uploader.Upload stores the file under the key, or fails.
SimpleUploadFile ==
    /\ s3.pc = "SimpleUploadFile"
    /\ \/ s3' = [s3 EXCEPT !.pc = "uploaded", !.object = Object(s3.file)]
       \/ s3' = [s3 EXCEPT !.pc = "error"]
    /\ NotS3

\* Lines 92-95 and 113-122: CreateMultipartUpload.
InitMultipartUpload ==
    /\ s3.pc = "MultipartUploadFile"
    /\ \/ s3' = [s3 EXCEPT !.pc = "UploadParts"]
       \/ s3' = [s3 EXCEPT !.pc = "error"]
    /\ NotS3

\* The bytes with the first byte of the file again.
ReadFromStart(file, offset, n) == SubSeq(file, 1, n)

\* file.Read(buffer) at the offset of the file: buffer[:n].
ReadAtOffset(file, offset, n) == SubSeq(file, offset + 1, offset + n)

\* The upload completed although UploadParts returned an error.
AbortedThenCompleted(c) == [c EXCEPT !.pc = "CompleteMultipartUpload"]

\* AbortMultipartUpload, and the error returned by MultipartUploadFile.
Aborted(c) == [c EXCEPT !.pc = "error", !.parts = NoParts]

\* Lines 127-137: make([]byte, partSize) panics for a negative partSize; a
\* Read of up to partSize bytes; the loop ends when Read returns 0 bytes; a
\* failing Read ends UploadParts, and the upload is aborted (lines 98-101).
ReadPart ==
    /\ s3.pc = "UploadParts"
    /\ IF s3.partSize < 0
       THEN s3' = [s3 EXCEPT !.pc = "panic"]
       ELSE LET rest == Len(s3.file) - s3.offset
                most == Min(s3.partSize, rest)
            IN  \/ /\ most = 0
                   /\ s3' = [s3 EXCEPT !.pc = "CompleteMultipartUpload"]
                \/ \E n \in 1..most :
                      s3' = [s3 EXCEPT !.pc = "UploadPartWithRetry",
                                       !.buffer = ReadAtOffset(s3.file, s3.offset, n),
                                       !.offset = @ + n,
                                       !.i = 0,
                                       !.uploadResp = FALSE,
                                       !.err = FALSE]
                \/ s3' = Aborted(s3)
    /\ NotS3

\* Lines 178-191, one iteration of the loop: an attempt of
\* UploadPartWithContext. On success the part is stored under partNumber and
\* the function returns uploadResp, nil; on failure the part may or may not
\* have reached the service, and the loop goes on.
UploadPartAttempt ==
    /\ s3.pc = "UploadPartWithRetry"
    /\ s3.i < s3.retries
    /\ LET stored == (s3.partNumber :> s3.buffer) @@ s3.parts
       IN  \/ s3' = [s3 EXCEPT !.pc = "returned",
                               !.parts = stored,
                               !.uploadResp = TRUE,
                               !.err = FALSE]
           \/ \E parts \in {s3.parts, stored} :
                 s3' = [s3 EXCEPT !.i = @ + 1, !.parts = parts,
                                  !.uploadResp = FALSE, !.err = TRUE]
    /\ NotS3

\* Line 192: the loop has ended; the function returns nil, err.
UploadPartFailed ==
    /\ s3.pc = "UploadPartWithRetry"
    /\ s3.i >= s3.retries
    /\ s3' = [s3 EXCEPT !.pc = "returned", !.uploadResp = FALSE]
    /\ NotS3

\* Lines 143-151 and 98-101, UploadParts after the call: with an error the
\* upload is aborted; otherwise uploadResp.ETag is read, a nil pointer
\* dereference when uploadResp is nil, and the part is listed.
AppendPart ==
    /\ s3.pc = "returned"
    /\ s3' = IF s3.err THEN Aborted(s3)
             ELSE IF ~s3.uploadResp THEN [s3 EXCEPT !.pc = "panic"]
             ELSE [s3 EXCEPT !.pc = "UploadParts",
                             !.completedParts = Append(@, s3.partNumber),
                             !.partNumber = @ + 1]
    /\ NotS3

Ascending(numbers) ==
    \A j \in 1..(Len(numbers) - 1) : numbers[j] < numbers[j + 1]

RECURSIVE Assemble(_, _)
\* The parts listed in numbers, concatenated in that order.
Assemble(parts, numbers) ==
    IF numbers = << >> THEN << >>
    ELSE parts[Head(numbers)] \o Assemble(parts, Tail(numbers))

\* Lines 103-106 and 158-171: CompleteMultipartUpload with the listed parts.
CompleteMultipartUpload ==
    /\ s3.pc = "CompleteMultipartUpload"
    /\ \/ /\ s3.completedParts # << >>
          /\ Ascending(s3.completedParts)
          /\ s3' = [s3 EXCEPT !.pc = "uploaded",
                              !.object = Object(Assemble(s3.parts, s3.completedParts)),
                              !.parts = NoParts]
       \/ s3' = [s3 EXCEPT !.pc = "error"]
    /\ NotS3

\* Lines 208-231, after UploadFile returned nil: os.Create of the local
\* file, GetObject, io.Copy of the body; or a failure that leaves the file
\* empty or with a prefix of the body.
DownloadFile ==
    /\ s3.pc = "uploaded"
    /\ \/ /\ s3.object.exists
          /\ s3' = [s3 EXCEPT !.pc = "downloaded", !.downloaded = Object(s3.object.body)]
       \/ \E n \in 0..Len(s3.object.body) :
             s3' = [s3 EXCEPT !.pc = "error",
                              !.downloaded = Object(SubSeq(s3.object.body, 1, n))]
    /\ NotS3

S3Next ==
    \/ UploadFile \/ SimpleUploadFile \/ InitMultipartUpload
    \/ ReadPart \/ UploadPartAttempt \/ UploadPartFailed \/ AppendPart
    \/ CompleteMultipartUpload \/ DownloadFile

S3Spec == S3Init /\ [][S3Next]_vars

(***************************************************************************)
(* Claims about MarkDead, Get and the keys                                 *)
(***************************************************************************)
\* C21: MarkDead on a registered mirror leaves that mirror dead with load 0,
\* its weight and every other mirror as they were; a mirror becomes alive
\* again only in a resurrection pass, and Get returns no mirror that was dead
\* when its scan began.
C21_MarkDeadFrame ==
    [][ /\ (last'.op = "MarkDead" /\ getting = "idle" /\ getting' = "idle") =>
              LET i == FindURL(urls, last'.url)
              IN  i # 0 =>
                    /\ Len(urls') = Len(urls)
                    /\ urls'[i].Dead
                    /\ urls'[i].Load = 0
                    /\ urls'[i].Weight = urls[i].Weight
                    /\ urls'[i].URL = urls[i].URL
                    /\ \A j \in 1..Len(urls) : j # i => urls'[j] = urls[j]
        /\ \A i \in 1..Len(urls) :
              /\ (urls[i].Dead /\ ~urls'[i].Dead) => getting = "resume"
              /\ urls'[i].Load > urls[i].Load => ~urls[i].Dead ]_vars

\* MarkDead has run on a registered mirror whose weight Done had changed,
\* while another mirror carries load.
C21_Witness ==
    /\ last.op = "MarkDead"
    /\ LET i == FindURL(urls, last.url)
       IN  /\ i # 0
           /\ urls[i].Dead
           /\ urls[i].Weight # Fixed(1, 0)
           /\ \E j \in 1..Len(urls) : j # i /\ urls[j].Load > 0

\* C22: with no mirror registered, a request that reaches Get ends at once,
\* without a resurrection pass, and its response carries status 503.
C22_NoMirrorUnavailable ==
    [][ \A r \in DOMAIN req :
          (Len(urls) = 0 /\ req[r].pc = "attempt" /\ req'[r] # req[r])
          => /\ req'[r].pc = "failed"
             /\ req'[r].status = 503
             /\ urls' = urls ]_vars

\* The final segment of each path of PlainPaths.
FinalSegment(path) ==
    CASE path = ManifestPath -> <<"latest">>
      [] OTHER -> << >>

\* C23: the key of a path whose segment sha256:K stands between any segments
\* is K, and the key of a path without sha256: is its final segment; the
\* cache file of the request is named by that key.
C23_KeyIsTheDigest ==
    \A r \in DOMAIN req :
        /\ \A pre \in KeyPrefixes, post \in KeySuffixes :
              req[r].path = pre \o DigestSegment \o post
                 => /\ extractHashFromURL(req[r].path) = <<"K">>
                    /\ getCacheFilePath(req[r].path) = <<"cache", "/", "K", ".dat">>
        /\ req[r].path \in PlainPaths
              => extractHashFromURL(req[r].path) = FinalSegment(req[r].path)

\* C24: a step in which the creation or a write of a cache file fails does
\* not end the request in failure, and the bytes read from the upstream so far
\* and those still to be read are all passed on to the caller.
C24_CacheFailureInvisible ==
    [][ \A r \in DOMAIN req :
          (~req[r].diskErr /\ req'[r].diskErr)
          => /\ req'[r].pc \in {"stream", "done"}
             /\ Len(req'[r].sent) + Len(req'[r].body) = Len(req[r].sent) + Len(req[r].body) ]_vars

\* C25: a request that has used its retry budget without a response to pass
\* on makes no further attempt: it ends, and its response carries an error
\* status.
C25_ExhaustedBudgetFails ==
    [][ \A r \in DOMAIN req :
          ( /\ req[r].pc = "attempt"
            /\ req[r].attempts >= RetryBudget
            /\ req'[r] # req[r] )
          => /\ req'[r].pc = "failed"
             /\ req'[r].status >= 500 ]_vars

\* C26: a request that looks into the cache while no other request is
\* streaming or has its verification outstanding is not served the body of an
\* upstream response with a non-success status.
C26_OnlySuccessCached ==
    [][ \A r \in DOMAIN req :
          ( /\ req[r].pc = "start"
            /\ req'[r].hit
            /\ \A o \in DOMAIN req \ {r} :
                  /\ req[o].pc \in {"start", "done", "failed"}
                  /\ req[o].verify.pc # "pending" )
          => req'[r].sent # ErrorBody ]_vars

\* C27: a run of the verification creates and modifies no file; when the
\* content stored for the key of the request hashes to the key, every file of
\* the entry is still there afterwards, and the entry is served from the cache
\* if it was before.
C27_VerifyKeepsGoodEntry ==
    [][ \A r \in DOMAIN req :
          LET path == req[r].path
              entry == StoredEntry(fs, path)
          IN  (req[r].verify.pc = "pending" /\ req'[r].verify.pc = "ran")
              => /\ \A p \in DOMAIN fs' : p \in DOMAIN fs /\ fs'[p] = fs[p]
                 /\ ( /\ entry.complete
                      /\ calculateSHA256(entry.bytes) = extractHashFromURL(path) )
                    => /\ entry.paths \subseteq DOMAIN fs'
                       /\ serveFromCache(fs, getCacheFilePath(path)).ok
                             => serveFromCache(fs', getCacheFilePath(path)).ok ]_vars

\* The verification of a request with a declared length has run, the content
\* stored for the key hashes to the key, and the cache directory holds the
\* files of the entry and no other.
C27_Witness ==
    \E r \in DOMAIN req :
        LET entry == StoredEntry(fs, req[r].path)
        IN  /\ req[r].verify.pc = "ran"
            /\ req[r].verify.contentLengthStr # << >>
            /\ entry.complete
            /\ calculateSHA256(entry.bytes) = extractHashFromURL(req[r].path)
            /\ ~entry.paths = {}
            /\ DOMAIN fs = entry.paths

\* C28: in a split write, a Read of n bytes opens a new part exactly when no
\* part is open yet or the current part would grow beyond chunkSize with
\* them; the part opened carries the next index, counted from 0; the bytes go
\* to the end of the current part, and no part the request created holds more
\* than chunkSize bytes.
C28_PartsBounded ==
    [][ \A r \in DOMAIN req :
          LET q == req[r]
              q2 == req'[r]
              n == Len(q.body) - Len(q2.body)
              cur == IF q.cacheFile = NoFile THEN 0 ELSE Len(fs[q.cacheFile])
              opens == q.cacheFile = NoFile \/ cur + n > ChunkSize
          IN  ( /\ q.pc = "stream"
                /\ q2.pc = "stream"
                /\ q.split
                /\ shouldCache(q.path)
                /\ n > 0 )
              => /\ opens <=> q2.cacheFile # q.cacheFile
                 /\ opens => q2.cacheFile =
                                getCacheFilePathWithPart(q.path, Cardinality(q.created))
                 /\ Len(fs'[q2.cacheFile]) = (IF opens THEN 0 ELSE cur) + n
                 /\ \A p \in q2.created : Len(fs'[p]) <= ChunkSize ]_vars

\* A split write has created four parts, one of them shorter than chunkSize
\* and followed by another part.
C28_Witness ==
    \E r \in DOMAIN req :
        /\ req[r].split
        /\ req[r].pc = "stream"
        /\ Cardinality(req[r].created) = 4
        /\ Len(fs[getCacheFilePathWithPart(req[r].path, 0)]) < ChunkSize

\* C29: when UploadFile and then DownloadFile of the key have returned
\* without error, the downloaded file holds the bytes of the uploaded file.
C29_RoundTrip ==
    s3.pc = "downloaded" => s3.downloaded = Object(s3.file)

\* A download after a multipart upload of a three-byte file in three parts,
\* read with a buffer of two bytes.
C29_Witness ==
    /\ s3.pc = "downloaded"
    /\ Len(s3.completedParts) = 3
    /\ s3.file = <<1, 2, 1>>
    /\ s3.partSize = 2

\* C30: a Get that returns a mirror from its first scan adds one to the load
\* of the mirror it returns and changes nothing else in any mirror; a weight
\* changes only in a step of Done.
C30_GetFrame ==
    [][ /\ ( /\ getting = "idle"
             /\ getting' = "idle"
             /\ last'.op = "Get"
             /\ last'.url # << >>
             /\ <<urls, last>>' # <<urls, last>> )
           => \E i \in 1..Len(urls) :
                 /\ urls[i].URL = last'.url
                 /\ urls' = [urls EXCEPT ![i].Load = urls[i].Load + 1]
        /\ \A i \in 1..Len(urls) :
              (i <= Len(urls') /\ urls'[i].Weight # urls[i].Weight)
                  => last'.op = "Done" ]_vars

\* Get has returned a mirror whose weight Done had changed, with the other
\* mirror loaded and dead.
C30_Witness ==
    /\ last.op = "Get"
    /\ Len(urls) = 2
    /\ \E i, j \in 1..Len(urls) :
          /\ urls[i].URL = last.url
          /\ urls[i].Weight # Fixed(1, 0)
          /\ urls[i].Load = 2
          /\ j # i
          /\ urls[j].Dead

(***************************************************************************)
(* ForkSpec: docker/fork, the image cache server: getImageHandler for one  *)
(* image against the background task checkAndCompressColdFiles. One step   *)
(* per lock operation and per group of file operations of one goroutine.   *)
(* tar, lz4: the image file and the compressed file exist; cold, expired:  *)
(* their modification times are past coldThreshold, cleanUpThreshold;     *)
(* status: the status of the handler's last response, 0 before it.         *)
(***************************************************************************)
ForkInit ==
    /\ fork \in [pc : {"on"}, tar : BOOLEAN, cold : BOOLEAN, lz4 : BOOLEAN,
                 expired : BOOLEAN, lock : {"none"}, h : {"idle"}, bg : {"scan"},
                 status : {0}]
    /\ fork.cold => fork.tar
    /\ fork.expired => fork.lz4
    /\ limiter = NoServer
    /\ urls = NewURLManager
    /\ getting = "idle"
    /\ passes = 0
    /\ last = NoCall
    /\ ConcIdle
    /\ ProxyIdle
    /\ S3Idle

NotFork == UNCHANGED <<selVars, concVars, proxyVars, s3Vars, limiter>>

\* The handler returns after http.Error with StatusInternalServerError or
\* after http.ServeFile: the deferred lock.Unlock() runs.
HandlerReturn(f, status) ==
    [f EXCEPT !.h = "idle", !.lock = "none", !.status = status]

\* Lines 62-78: a request with an image name; lock.Lock().
HandlerLock ==
    /\ fork.h = "idle"
    /\ fork.lock = "none"
    /\ \E needLatest \in BOOLEAN :
         fork' = [fork EXCEPT !.lock = "handler", !.status = 0,
                              !.h = IF needLatest THEN "latest" ELSE "decompress"]
    /\ NotFork

\* Lines 81-84: latest=true: docker pull and docker save write the image
\* file, or fail and the handler returns.
PullLatest ==
    /\ fork.h = "latest"
    /\ \/ fork' = [fork EXCEPT !.tar = TRUE, !.cold = FALSE, !.h = "serve"]
       \/ fork' = HandlerReturn(fork, 500)
    /\ NotFork

\* Lines 90-96: when the compressed file exists it is decompressed into the
\* image file and removed; decompressImage fails before or after its
\* os.Create of the image file, and the handler returns.
Decompress ==
    /\ fork.h = "decompress"
    /\ IF fork.lz4
       THEN \/ fork' = [fork EXCEPT !.tar = TRUE, !.cold = FALSE, !.lz4 = FALSE,
                                    !.expired = FALSE, !.h = "exists"]
            \/ fork' = HandlerReturn(fork, 500)
            \/ fork' = [HandlerReturn(fork, 500) EXCEPT !.tar = TRUE, !.cold = FALSE]
       ELSE fork' = [fork EXCEPT !.h = "exists"]
    /\ NotFork

\* Lines 99-104: fileExists(imagePath); a missing image is pulled and saved,
\* or the pull fails and the handler returns.
PullMissing ==
    /\ fork.h = "exists"
    /\ IF fork.tar
       THEN fork' = [fork EXCEPT !.h = "serve"]
       ELSE \/ fork' = [fork EXCEPT !.tar = TRUE, !.cold = FALSE, !.h = "serve"]
            \/ fork' = HandlerReturn(fork, 500)
    /\ NotFork

\* Lines 85 and 106: serveFileWithCustomName: http.ServeFile answers 404 when
\* the file is not there; then the handler returns.
Serve ==
    /\ fork.h = "serve"
    /\ fork' = HandlerReturn(fork, IF fork.tar THEN 200 ELSE 404)
    /\ NotFork

\* Between two requests the image file grows older than coldThreshold.
Age ==
    /\ fork.h = "idle"
    /\ fork.tar
    /\ ~fork.cold
    /\ fork' = [fork EXCEPT !.cold = TRUE]
    /\ NotFork

\* Lines 113-125: os.ReadDir(imageDir), isFileCold and
\* !fileExists(compressedPath) for the image file, without the lock.
ColdScan ==
    /\ fork.bg = "scan"
    /\ fork' = [fork EXCEPT !.bg = IF fork.tar /\ fork.cold /\ ~fork.lz4
                                    THEN "lock" ELSE "cleanup"]
    /\ NotFork

\* Line 126: lock.Lock().
ColdLock ==
    /\ fork.bg = "lock"
    /\ fork.lock = "none"
    /\ fork' = [fork EXCEPT !.lock = "task", !.bg = "compress"]
    /\ NotFork

\* Lines 127-131: compressImage and lock.Unlock(); compressImage fails when
\* the image file cannot be opened, or later with the compressed file
\* created.
ColdCompress ==
    /\ fork.bg = "compress"
    /\ \/ /\ fork.tar
          /\ fork' = [fork EXCEPT !.lz4 = TRUE, !.expired = FALSE,
                                  !.lock = "none", !.bg = "remove"]
       \/ \E created \in IF fork.tar THEN BOOLEAN ELSE {FALSE} :
             fork' = [fork EXCEPT !.lz4 = @ \/ created,
                                  !.expired = @ /\ ~created,
                                  !.lock = "none", !.bg = "cleanup"]
    /\ NotFork

\* Line 132: os.Remove(filePath) of the image file, after the Unlock.
ColdRemove ==
    /\ fork.bg = "remove"
    /\ fork' = [fork EXCEPT !.tar = FALSE, !.cold = FALSE, !.bg = "cleanup"]
    /\ NotFork

\* Lines 138-156: an expired compressed file is removed; time.Sleep, and the
\* loop starts over.
CleanUp ==
    /\ fork.bg = "cleanup"
    /\ fork' = [fork EXCEPT !.lz4 = @ /\ ~fork.expired, !.expired = FALSE,
                            !.bg = "scan"]
    /\ NotFork

ForkNext ==
    \/ HandlerLock \/ PullLatest \/ Decompress \/ PullMissing \/ Serve \/ Age
    \/ ColdScan \/ ColdLock \/ ColdCompress \/ ColdRemove \/ CleanUp

ForkSpec == ForkInit /\ [][ForkNext]_vars

(***************************************************************************)
(* RateSpec: the rate-limiting proxy. All requests come from one IP, over  *)
(* the connections Conns; r.RemoteAddr is the IP with the port of the      *)
(* connection. The server handles the requests of one connection one after *)
(* the other, and the handlers of different connections use different keys *)
(* of the two maps, so a call of the handler is one step. The clock counts *)
(* seconds. The model keeps requestLimit = 2 and blacklistTime = 1 s.      *)
(***************************************************************************)
RequestLimit == 2
BlacklistTime == 1
MaxClock == 2       \* the clock is followed up to this second
MaxRequests == 4    \* the requests followed

Conns == {"c1", "c2"}

\* counts[c][second]: *currentCount under userRequests of the key of c, 0
\* when there is no entry; blacklist[c]: the expiry stored under the key of
\* c, -1 when there is none; reached[second]: the calls of next made in that
\* second; status: the status of the last response.
RateInit ==
    /\ limiter = [pc |-> "on", clock |-> 0, requests |-> 0, status |-> 0,
                  counts |-> [c \in Conns |-> [second \in 0..MaxClock |-> 0]],
                  blacklist |-> [c \in Conns |-> -1],
                  reached |-> [second \in 0..MaxClock |-> 0]]
    /\ fork = NoServer
    /\ urls = NewURLManager
    /\ getting = "idle"
    /\ passes = 0
    /\ last = NoCall
    /\ ConcIdle
    /\ ProxyIdle
    /\ S3Idle

NotRate == UNCHANGED <<selVars, concVars, proxyVars, s3Vars, fork>>

\* A second passes.
Tick ==
    /\ limiter.clock < MaxClock
    /\ limiter' = [limiter EXCEPT !.clock = @ + 1]
    /\ NotRate

\* Lines 588-599: the entries that have expired are deleted.
cleanupBlacklist ==
    /\ \E c \in Conns : limiter.blacklist[c] # -1 /\ limiter.blacklist[c] < limiter.clock
    /\ limiter' = [limiter EXCEPT !.blacklist =
                      [c \in Conns |-> IF @[c] < limiter.clock THEN -1 ELSE @[c]]]
    /\ NotRate

\* Lines 602-645, the handler for a request on connection c: 403 while the
\* key is blacklisted; the counter of the key for this second incremented;
\* above requestLimit the key is blacklisted and the answer is 429;
\* otherwise the counters of earlier seconds are deleted and next is called.
rateLimiter(c) ==
    /\ limiter.requests < MaxRequests
    /\ LET now == limiter.clock
           currentCount == limiter.counts[c][now] + 1
           l == [limiter EXCEPT !.requests = @ + 1]
       IN  limiter' =
             IF l.blacklist[c] # -1 /\ now < l.blacklist[c]
             THEN [l EXCEPT !.status = 403]
             ELSE IF currentCount > RequestLimit
             THEN [l EXCEPT !.counts[c][now] = currentCount,
                            !.blacklist[c] = now + BlacklistTime,
                            !.status = 429]
             ELSE [l EXCEPT !.counts[c] = [second \in 0..MaxClock |->
                                              IF second < now THEN 0
                                              ELSE IF second = now THEN currentCount
                                              ELSE @[second]],
                            !.blacklist[c] = -1,
                            !.reached[now] = @ + 1,
                            !.status = 200]
    /\ NotRate

RateNext == Tick \/ cleanupBlacklist \/ \E c \in Conns : rateLimiter(c)

RateSpec == RateInit /\ [][RateNext]_vars

(***************************************************************************)
(* PartSpec: a call of the exported method UploadPartWithRetry with any    *)
(* buffer, part number and value of retries.                               *)
(***************************************************************************)
MaxRetries == 3

\* The values of the retries argument.
RetryCounts == (-1)..MaxRetries

PartInit ==
    /\ s3 \in {[S3Start(<< >>, 1, NoObject) EXCEPT
                   !.pc = "UploadPartWithRetry", !.buffer = buffer,
                   !.partNumber = partNumber, !.retries = retries] :
                 buffer \in FileContents, partNumber \in 1..2, retries \in RetryCounts}
    /\ urls = NewURLManager
    /\ getting = "idle"
    /\ passes = 0
    /\ last = NoCall
    /\ ConcIdle
    /\ ProxyIdle
    /\ ServersIdle

PartNext == UploadPartAttempt \/ UploadPartFailed

PartSpec == PartInit /\ [][PartNext]_vars

(***************************************************************************)
(* HoldSpec: callers that pair every Get with one Done for the mirror it   *)
(* returned, and never call MarkDead. Load++ and Load-- are made under the *)
(* mirror's mutex, so each call is one step.                               *)
(***************************************************************************)
HoldInit ==
    /\ urls = Registered
    /\ task = [t \in Tasks |-> IdleTask]
    /\ mu = [i \in 1..Len(Registered) |-> "none"]
    /\ umMu = [readers |-> {}, writer |-> "none", waiting |-> {}]
    /\ clast = NoWrite
    /\ getting = "idle"
    /\ passes = 0
    /\ last = NoCall
    /\ ProxyIdle
    /\ S3Idle
    /\ ServersIdle

\* Get, lines 53-89, by a caller that holds no mirror: the scan finds a
\* mirror, every mirror being alive, and the caller keeps the URL returned.
Acquire(t) ==
    /\ task[t].pc = "idle"
    /\ \E startIndex \in 0..(Len(urls) - 1) :
         LET sel == Scan(urls, startIndex)
         IN  /\ sel # 0
             /\ urls' = Selected(urls, sel)
             /\ task' = [task EXCEPT ![t] = [IdleTask EXCEPT
                           !.pc = "held", !.url = urls[sel].URL]]
    /\ UNCHANGED <<mu, umMu, clast>>
    /\ SeqIdle

\* Done, lines 98-123, called with the URL the caller holds.
Release(t) ==
    /\ task[t].pc = "held"
    /\ \E in \in DoneInputs :
         urls' = DoneURLs(urls, task[t].url, in[1], in[2])
    /\ task' = [task EXCEPT ![t] = IdleTask]
    /\ UNCHANGED <<mu, umMu, clast>>
    /\ SeqIdle

HoldNext == \E t \in Tasks : Acquire(t) \/ Release(t)

HoldSpec == HoldInit /\ [][HoldNext]_vars

(***************************************************************************)
(* Claims about verification, concurrent writers, the selector's frame and *)
(* locks, and the S3 client.                                               *)
(***************************************************************************)
\* C31: the verification started after a cacheable write has completed
\* re-hashes the files of the entry that write created, whether or not the
\* upstream response declared a Content-Length.
C31_WriteIsVerified ==
    [][ \A r \in DOMAIN req :
          (req[r].verify.pc = "pending" /\ req'[r].verify.pc = "ran")
              => Rehashed(fs, req[r].verify.url, req[r].verify.contentLengthStr)
                     = req[r].created \ {getRecordFilePath(req[r].path)} ]_vars

\* C32: when two requests for the same key have both missed the cache, both
\* received the blob from a mirror with status 200 and both completed, the
\* entry stored for the key is complete and holds exactly the blob.
C32_TwoWritersOneEntry ==
    \A r, o \in DOMAIN req :
        ( /\ r # o
          /\ req[r].path = req[o].path
          /\ shouldCache(req[r].path)
          /\ \A x \in {r, o} :
                /\ req[x].pc = "done"
                /\ ~req[x].hit
                /\ req[x].respStatus = 200
                /\ req[x].sent = Blob(req[x].path) )
        => LET entry == StoredEntry(fs, req[r].path)
           IN  entry.exists /\ entry.complete /\ entry.bytes = Blob(req[r].path)

\* C33, as claimed: resume sets every mirror alive and changes nothing else,
\* and a dead mirror keeps load 0 and its weight in every step until then.
C33_DeadMirrorFrozen ==
    [][ /\ (getting = "resume" /\ getting' = "loop")
           => urls' = [i \in 1..Len(urls) |-> [urls[i] EXCEPT !.Dead = FALSE]]
        /\ \A i \in 1..Len(urls) :
              urls[i].Dead => /\ urls'[i].Load = 0
                              /\ urls'[i].Weight = urls[i].Weight ]_vars

\* C33, amended: resume sets every mirror alive and changes nothing else; a
\* dead mirror keeps load 0, and its weight changes only in a Done called
\* with its URL.
C33_ResumeFrame ==
    [][ /\ (getting = "resume" /\ getting' = "loop")
           => urls' = [i \in 1..Len(urls) |-> [urls[i] EXCEPT !.Dead = FALSE]]
        /\ \A i \in 1..Len(urls) :
              urls[i].Dead => /\ urls'[i].Load = 0
                              /\ urls'[i].Weight # urls[i].Weight
                                    => (last'.op = "Done" /\ last'.url = urls[i].URL) ]_vars

\* A resurrection pass has just ended with two mirrors alive, one of them
\* with load 0 and a weight Done has set.
C33_Witness ==
    /\ getting = "loop"
    /\ Len(urls) = 2
    /\ \A i \in 1..Len(urls) : ~urls[i].Dead
    /\ \E i \in 1..Len(urls) : urls[i].Load = 0 /\ urls[i].Weight # Fixed(1, 0)

\* C34: when no mirror is marked dead and every Done names a mirror a Get
\* has returned and that has not been released since, the load of each mirror
\* is the number of callers holding it.
C34_LoadCountsHolders ==
    \A i \in 1..Len(urls) :
        urls[i].Load = Cardinality({t \in Tasks : task[t].pc = "held"
                                                  /\ task[t].url = urls[i].URL})

\* One caller holds a mirror that has been held twice at once and released
\* once, its weight set by that Done.
C34_Witness ==
    \E i \in 1..Len(urls) :
        /\ urls[i].Load = 1
        /\ urls[i].Weight # Fixed(1, 0)
        /\ \E t \in Tasks : task[t].pc = "held" /\ task[t].url = urls[i].URL
        /\ \E t \in Tasks : task[t].pc = "idle"

\* C35: a Done or a MarkDead called with a URL that is the URL of no
\* registered mirror, such as a mirror's URL followed by a request path,
\* changes no field of any mirror.
C35_ForeignURLNoEffect ==
    [][ ( /\ last'.op \in {"Done", "MarkDead"}
          /\ \A i \in 1..Len(urls) : urls[i].URL # last'.url )
        => urls' = urls ]_vars

\* Done or MarkDead has been called with the URL of the first mirror followed
\* by a path, while that mirror is alive and in use.
C35_Witness ==
    /\ last.op \in {"Done", "MarkDead"}
    /\ last.url = ForeignURL
    /\ Len(urls) = 2
    /\ ~urls[1].Dead
    /\ urls[1].Load > 0

C37_RetryResult ==
    /\ s3.i + (IF s3.uploadResp THEN 1 ELSE 0) <= Max(s3.retries, 0)
    /\ s3.uploadResp => (s3.pc = "returned" /\ ~s3.err)
    /\ s3.pc = "returned" => (s3.uploadResp \/ s3.err)

\* C38: whenever getImageHandler is at serveFileWithCustomName, the image
\* file exists.
C38_ServedFileExists == fork.pc = "on" => (fork.h = "serve" => fork.tar)

\* C39: in every second at most requestLimit requests of the IP reach the
\* wrapped handler, and none reaches it while an entry of the blacklist for
\* the IP has not expired.
C39_AtMostLimitPerSecond ==
    /\ [](limiter.pc = "on"
            => \A second \in 0..MaxClock : limiter.reached[second] <= RequestLimit)
    /\ [][ limiter.pc = "on" /\ limiter'.reached # limiter.reached
            => \A c \in Conns : \/ limiter.blacklist[c] = -1
                                 \/ limiter.blacklist[c] <= limiter.clock ]_vars

\* The mirrors whose lock task t holds.
Held(t) == {i \in 1..Len(mu) : mu[i] = t}

\* C40: a task outside a call, and a Get about to call resume, holds no lock;
\* a Get in its scan holds the read lock of the list and the lock of its
\* current candidate only; Done and MarkDead between their steps hold the
\* read lock only; resume holds the write lock only, and nothing when it
\* has returned.
C40_LockDiscipline ==
    \A t \in DOMAIN task :
        LET pc == task[t].pc
            listLocks == (IF t \in umMu.readers THEN {"read"} ELSE {})
                         \cup (IF umMu.writer = t THEN {"write"} ELSE {})
        IN  /\ pc \in {"idle", "Get_RLock", "resume_Lock", "resume_wait"}
                  => (Held(t) = {} /\ listLocks = {})
            /\ pc \in {"Get_scan", "Get_end"}
                  => /\ listLocks = {"read"}
                     /\ Held(t) = {task[t].selectedURL} \ {0}
            /\ pc \in {"Done_Lock", "MarkDead_Lock"}
                  => (Held(t) = {} /\ listLocks = {"read"})
            /\ pc = "resume_loop" => (Held(t) = {} /\ listLocks = {"write"})

\* Two Gets are in their scans at once, both with the read lock of the list,
\* one of them holding the lock of its candidate.
C40_Witness ==
    /\ DOMAIN task = Tasks
    /\ task["t1"].pc = "Get_scan"
    /\ task["t1"].selectedURL # 0
    /\ mu[task["t1"].selectedURL] = "t1"
    /\ task["t2"].pc = "Get_scan"
    /\ umMu.readers = Tasks

====
